---------------------------- MODULE Spec2Model ----------------------------
(***************************************************************************)
(* A model of the CampsiteJS build pipeline (packages/basecampjs/src):     *)
(* the build orchestrator, the concurrent page tasks, the cache-busting    *)
(* stage and the dev-mode rebuild loop.                                    *)
(*                                                                         *)
(* Strings are sequences of one-character strings, so that the path        *)
(* functions are computed as the code computes them.                       *)
(***************************************************************************)
EXTENDS Integers, Sequences, FiniteSets, TLC

VARIABLES
    call,       \* a utility function under application: its argument, and
                \* the applications made so far, each [fn, input, output]
    mode,       \* what is run: the command line ("build", "dev"), or one
                \* function on its own ("cachebust", "copy", "sitemap", "url", "slug")
    cfg,        \* the loaded configuration (the toggles the pipeline reads)
    pages,      \* the files under src/pages: records [rel, layout, bad, items]
    pub,        \* the public directory: path -> content
    out,        \* the output directory: path -> content
    builds,     \* every call of build() so far: its control point and locals
    tasks,      \* the renderPage promises: <<build, rel>> -> control point
    building,   \* dev(): the non-reentrant guard
    pending,    \* dev(): the single pending flag
    watching,   \* dev(): the watcher is registered
    events      \* number of change events delivered so far

vars == <<call, mode, cfg, pages, pub, out, builds, tasks, building, pending, watching, events>>

---------------------------------------------------------------------------
(* Strings *)

UpperChars == <<"A","B","C","D","E","F","G","H","I","J","K","L","M",
                "N","O","P","Q","R","S","T","U","V","W","X","Y","Z">>
LowerChars == <<"a","b","c","d","e","f","g","h","i","j","k","l","m",
                "n","o","p","q","r","s","t","u","v","w","x","y","z">>

OtherChars == {".", "/", "-", "_", "0", "1", "2", "3", "4", "5", "6", "7", "8", "9",
               "*", "?", ":", " ", "!", "\\"}

\* String.prototype.toLowerCase, one character at a time.
LowerMap ==
    [c \in {UpperChars[i] : i \in DOMAIN UpperChars}
            \cup {LowerChars[i] : i \in DOMAIN LowerChars} \cup OtherChars |->
        IF \E i \in DOMAIN UpperChars : UpperChars[i] = c
        THEN LowerChars[CHOOSE i \in DOMAIN UpperChars : UpperChars[i] = c]
        ELSE c]

LowerChar(c) == LowerMap[c]

toLowerCase(s) == [i \in DOMAIN s |-> LowerChar(s[i])]

startsWith(s, t) == Len(t) <= Len(s) /\ SubSeq(s, 1, Len(t)) = t

endsWith(s, t) == Len(t) <= Len(s) /\ SubSeq(s, Len(s) - Len(t) + 1, Len(s)) = t

\* String.prototype.indexOf, 1-based; 0 when t does not occur in s.
indexOf(s, t) ==
    LET hits == {i \in 1..(Len(s) - Len(t) + 1) : SubSeq(s, i, i + Len(t) - 1) = t}
    IN  IF hits = {} THEN 0 ELSE CHOOSE i \in hits : \A j \in hits : i <= j

\* String.prototype.replace with a string pattern: the first occurrence only.
replaceFirst(s, t, r) ==
    LET i == indexOf(s, t)
    IN  IF i = 0 THEN s
        ELSE SubSeq(s, 1, i - 1) \o r \o SubSeq(s, i + Len(t), Len(s))

lastIndexOf(s, c) ==
    LET hits == {i \in DOMAIN s : s[i] = c}
    IN  IF hits = {} THEN 0 ELSE CHOOSE i \in hits : \A j \in hits : j <= i

DOT_HTML == <<".","h","t","m","l">>
DOT_MD == <<".","m","d">>
DOT_NJK == <<".","n","j","k">>
DOT_LIQUID == <<".","l","i","q","u","i","d">>
DOT_MUSTACHE == <<".","m","u","s","t","a","c","h","e">>
DOT_CSS == <<".","c","s","s">>
DOT_JS == <<".","j","s">>
DOT_TXT == <<".","t","x","t">>
DOT_WEBP == <<".","w","e","b","p">>
DOT_AVIF == <<".","a","v","i","f">>
DOT_JPG == <<".","j","p","g">>
DOT_JPEG == <<".","j","p","e","g">>
DOT_PNG == <<".","p","n","g">>
DOT_GIF == <<".","g","i","f">>
INDEX_HTML == <<"i","n","d","e","x",".","h","t","m","l">>

---------------------------------------------------------------------------
(* Paths (node:path, posix) *)

\* The path up to and including its last "/", empty for a top-level file.
dirPrefix(p) == SubSeq(p, 1, lastIndexOf(p, "/"))

basename(p) == SubSeq(p, lastIndexOf(p, "/") + 1, Len(p))

\* path.extname: from the last "." of the base name, "" when there is none
\* or when it is the base name's first character.
extname(p) ==
    LET b == basename(p)
        i == lastIndexOf(b, ".")
    IN  IF i <= 1 THEN <<>> ELSE SubSeq(b, i, Len(b))

getExt(filePath) == toLowerCase(extname(filePath))

\* walkFiles: the files of a tree, entries whose name starts with "." skipped
\* at every level.
walkFiles(tree) ==
    {f \in DOMAIN tree : \A i \in DOMAIN f : f[i] = "." => (i > 1 /\ f[i - 1] # "/")}

\* new RegExp('^' + normalized.replace(/\*/g, '.*').replace(/\?/g, '.') + '$')
\* tested on s: "*" has become ".*", "?" has become ".", and a "." of the
\* pattern, left as it is, is the regular expression's any-character.
RECURSIVE regexTest(_, _)
regexTest(pat, s) ==
    IF pat = <<>> THEN s = <<>>
    ELSE IF Head(pat) = "*"
    THEN regexTest(Tail(pat), s) \/ (s # <<>> /\ regexTest(pat, Tail(s)))
    ELSE IF Head(pat) \in {"?", "."}
    THEN s # <<>> /\ regexTest(Tail(pat), Tail(s))
    ELSE s # <<>> /\ Head(s) = Head(pat) /\ regexTest(Tail(pat), Tail(s))

\* shouldExcludeFile: the callback of excludePatterns.some
patternExcludes(pattern, filePath) ==
    LET fileName == toLowerCase(basename(filePath))
        ext == getExt(filePath)
        normalized == toLowerCase(pattern)
    IN  IF startsWith(normalized, <<".">>) THEN ext = normalized
        ELSE IF startsWith(normalized, <<"*", ".">>) THEN ext = Tail(normalized)
        ELSE IF fileName = normalized THEN TRUE
        ELSE IF \E i \in DOMAIN normalized : normalized[i] = "*" THEN regexTest(normalized, fileName)
        ELSE FALSE

shouldExcludeFile(filePath, excludePatterns) ==
    \E i \in DOMAIN excludePatterns : patternExcludes(excludePatterns[i], filePath)

\* rel.replace(/\.liquid(\.html)?$/i, ".html")
replaceLiquidSuffix(rel) ==
    LET low == toLowerCase(rel)
    IN  IF endsWith(low, DOT_LIQUID \o DOT_HTML)
        THEN SubSeq(rel, 1, Len(rel) - Len(DOT_LIQUID \o DOT_HTML)) \o DOT_HTML
        ELSE IF endsWith(low, DOT_LIQUID)
        THEN SubSeq(rel, 1, Len(rel) - Len(DOT_LIQUID)) \o DOT_HTML
        ELSE rel

\* renderPage: the output path of a page, relative to the output directory.
outRel(rel) == replaceFirst(replaceLiquidSuffix(rel), getExt(rel), DOT_HTML)

---------------------------------------------------------------------------
(* Bounds *)

MaxPages == 2       \* files under src/pages
MaxPublic == 2      \* files under public/
MaxEvents == 3      \* change events the watcher delivers
MaxAssets == 2      \* .css/.js files of a tree handed to cacheBustAssets
MaxItems == 2       \* references in an HTML file handed to cacheBustAssets
MaxPatterns == 2    \* patterns in excludeFiles
MaxCopied == 2      \* files of a public directory handed to copyPublic
MaxListed == 3      \* files of an output tree handed to generateSitemap
MaxTokens == 3      \* pieces a path or URL handed to utils/paths.ts is made of
MaxCalls == 3       \* applications of the utils/paths.ts functions in a row
MaxSlugLen == 5     \* characters of a text handed to slugify
MaxDataDirs == 2    \* data directories handed to loadData
MaxDataFiles == 2   \* files of one data directory
MaxImages == 2      \* image files of an output tree handed to processImages
MaxFormats == 2     \* entries of compressionSettings.formats
MaxUrlTokens == 3   \* pieces a request URL handed to the dev server is made of

---------------------------------------------------------------------------
(* Finite maps *)

Empty == [x \in {} |-> {}]

Put(f, k, v) == [x \in (DOMAIN f) \cup {k} |-> IF x = k THEN v ELSE f[x]]

Del(f, k) == [x \in (DOMAIN f) \ {k} |-> f[x]]

Last(s) == s[Len(s)]

---------------------------------------------------------------------------
(* Inputs: file names, layouts, HTML references, pages *)

T_link == <<"l","i","n","k">>
T_script == <<"s","c","r","i","p","t">>
T_a == <<"a">>
A_href == <<"h","r","e","f">>
A_src == <<"s","r","c">>

F_s_css == <<"s",".","c","s","s">>
F_a_js == <<"a",".","j","s">>

\* One tag of an HTML file with the one attribute that holds a path; a text
\* run that mentions a path has the empty tag and attribute.
Ref(tag, attr, val) == [tag |-> tag, attr |-> attr, val |-> val]

\* The layouts that exist under src/layouts.
L_b_njk == <<"b",".","n","j","k">>
L_k_mustache == <<"k",".","m","u","s","t","a","c","h","e">>
L_m_njk == <<"m",".","n","j","k">>
L_m_liquid == <<"m",".","l","i","q","u","i","d">>
L_m_mustache == <<"m",".","m","u","s","t","a","c","h","e">>
L_l_txt == <<"l",".","t","x","t">>

LayoutFiles == {L_b_njk, L_k_mustache}

\* A page source: its path under src/pages, the layout its frontmatter names
\* (<<>> for none), whether its frontmatter or template is malformed, and the
\* references its body holds.
Page(rel, layout, bad, items) == [rel |-> rel, layout |-> layout, bad |-> bad, items |-> items]

PageUniverse ==
    { Page(<<"i",".","m","d">>, L_b_njk, FALSE, <<Ref(T_link, A_href, <<"/">> \o F_s_css)>>),
      Page(<<"a",".","n","j","k">>, <<>>, FALSE, <<Ref(T_script, A_src, <<"/">> \o F_a_js)>>),
      Page(<<"a",".","m","d">>, <<>>, FALSE, <<>>),
      Page(<<"x",".","n","j","k">>, <<>>, TRUE, <<>>),
      Page(<<"c",".","h","t","m","l">>, L_m_njk, FALSE, <<>>),
      Page(<<"d",".","l","i","q","u","i","d">>, L_m_liquid, FALSE, <<>>),
      Page(<<"e",".","m","u","s","t","a","c","h","e">>, L_m_mustache, FALSE, <<>>),
      Page(<<"g",".","l","i","q","u","i","d",".","h","t","m","l">>, L_l_txt, FALSE, <<>>),
      Page(<<"R",".","M","D">>, <<>>, FALSE, <<>>),
      Page(<<"t",".","t","x","t">>, <<>>, FALSE, <<>>) }

\* The page trees a run starts from: a file system holds one file per path.
PageSets ==
    { ps \in SUBSET PageUniverse :
        /\ Cardinality(ps) <= MaxPages
        /\ \A p, q \in ps : p.rel = q.rel => p = q }

\* File contents.  kind: "public" (copied from public/), "page" (written by
\* renderPage), "robots", "sitemap"; src: the source path; layout: the layout
\* that wraps the body (<<>> when unwrapped); items: the references of an
\* HTML file; bytes: the identity of the bytes; min: minified.  A build
\* record's ran is the set of optional stages the build has performed.
Content(kind, src, layout, items, bytes) ==
    [kind |-> kind, src |-> src, layout |-> layout, items |-> items, bytes |-> bytes, min |-> FALSE]

F_robots == <<"r","o","b","o","t","s",".","t","x","t">>
F_sitemap == <<"s","i","t","e","m","a","p",".","x","m","l">>

PublicUniverse ==
    { <<F_s_css, "c1">>, <<F_a_js, "c2">>, <<F_robots, "c3">>, <<F_sitemap, "c4">> }

PublicSets ==
    { [f \in {e[1] : e \in fs} |-> Content("public", f, <<>>, <<>>, (CHOOSE e \in fs : e[1] = f)[2])] :
        fs \in {x \in SUBSET PublicUniverse : Cardinality(x) <= MaxPublic} }

F_s_a1_css == <<"s","-","a","1",".","c","s","s">>
F_S_css == <<"S",".","c","s","s">>
F_i_html == <<"i",".","h","t","m","l">>
F_n_html == <<"n",".","h","t","m","l">>

\* The assets a tree may hold: a stylesheet, a script, and a stylesheet whose
\* name is the one cache-busting gives to s.css.
AssetUniverse ==
    { <<F_s_css, "c1">>, <<F_a_js, "c2">>, <<F_s_a1_css, "c2">> }

\* The references an HTML file may hold.
ItemUniverse ==
    { Ref(T_link, A_href, <<"/">> \o F_s_css),       \* <link href="/s.css">
      Ref(T_link, A_href, F_s_css),                  \* <link href="s.css">
      Ref(T_script, A_src, <<"/">> \o F_a_js),       \* <script src="/a.js">
      Ref(T_link, A_href, <<"/">> \o F_a_js),        \* <link rel="modulepreload" href="/a.js">
      Ref(T_link, A_href, <<"/">> \o F_S_css),       \* <link href="/S.css">
      Ref(T_a, A_href, <<"/">> \o F_s_css),          \* <a href="/s.css">
      Ref(<<>>, <<>>, <<"/">> \o F_s_css) }          \* text that mentions /s.css

\* What the output directory holds before the program runs: a file left by
\* an earlier build.
F_old_html == <<"o","l","d",".","h","t","m","l">>
StaleOut == [f \in {F_old_html} |-> Content("page", <<"o","l","d",".","m","d">>, <<>>, <<>>, "-")]

\* Site URLs: "h://e" stands for "https://example.com".
U_site == <<"h",":","/","/","e">>
U_site_slash == U_site \o <<"/">>

\* config.ts defaultConfig: the toggles the pipeline reads.
defaultConfig ==
    [minifyCSS |-> FALSE, minifyHTML |-> FALSE, cacheBustAssets |-> FALSE, compressPhotos |-> FALSE,
     excludeFiles |-> <<>>, siteUrl |-> U_site,
     hooks |-> [nunjucksEnv |-> "none", liquidEnv |-> "none"],
     compressionSettings |-> [formats |-> <<DOT_WEBP>>, inputFormats |-> <<DOT_JPG, DOT_JPEG, DOT_PNG>>,
                              preserveOriginal |-> TRUE]]

Configs ==
    { defaultConfig,
      [defaultConfig EXCEPT !.cacheBustAssets = TRUE],
      [defaultConfig EXCEPT !.minifyCSS = TRUE, !.cacheBustAssets = TRUE],
      [defaultConfig EXCEPT !.minifyHTML = TRUE, !.compressPhotos = TRUE],
      [defaultConfig EXCEPT !.minifyCSS = TRUE, !.minifyHTML = TRUE, !.cacheBustAssets = TRUE,
                            !.compressPhotos = TRUE] }

\* The projects the dev loop is run on: a page that renders, and a page
\* whose template is malformed.
DevPageSets == {ps \in PageSets : ps \subseteq {p \in PageUniverse : p.layout = <<>> /\ getExt(p.rel) = DOT_NJK}}

DevPublicSets == {f \in PublicSets : DOMAIN f = {F_s_css}}

DevConfigs ==
    {[defaultConfig EXCEPT !.minifyCSS = TRUE, !.minifyHTML = TRUE, !.cacheBustAssets = TRUE,
                           !.compressPhotos = TRUE]}

---------------------------------------------------------------------------
(* Rendering one page (build/pages.ts, render/engines.ts) *)

Renderable(rel) ==
    \/ getExt(rel) \in {DOT_MD, DOT_NJK, DOT_LIQUID, DOT_MUSTACHE, DOT_HTML}
    \/ endsWith(toLowerCase(rel), DOT_LIQUID \o DOT_HTML)

\* renderWithLayout: the layout that ends up wrapping the body (<<>> when the
\* body is returned unwrapped), or an exception.  env.render and
\* liquidEnv.renderFile throw when the template cannot be found.
renderWithLayout(layoutName) ==
    LET ext == getExt(layoutName)
        found == layoutName \in LayoutFiles
        wrapped == [threw |-> FALSE, layout |-> layoutName]
        unwrapped == [threw |-> FALSE, layout |-> <<>>]
        throws == [threw |-> TRUE, layout |-> <<>>]
    IN  IF layoutName = <<>> THEN unwrapped
        ELSE IF ext = DOT_NJK THEN (IF found THEN wrapped ELSE throws)
        ELSE IF ext = DOT_LIQUID \/ endsWith(toLowerCase(layoutName), DOT_LIQUID \o DOT_HTML)
             THEN (IF found THEN wrapped ELSE throws)
        ELSE IF ext = DOT_MUSTACHE /\ found THEN wrapped
        ELSE unwrapped

\* renderPage up to its write: what it will write, or that it throws.  A page
\* with malformed frontmatter or template throws in the parser or the engine;
\* a file that is not renderable is copied.
renderPage(p) ==
    IF ~Renderable(p.rel)
    THEN [threw |-> FALSE, content |-> Content("copy", p.rel, <<>>, <<>>, "-")]
    ELSE LET lay == renderWithLayout(p.layout)
         IN  [threw |-> p.bad \/ lay.threw,
              content |-> Content("page", p.rel, lay.layout, p.items, "-")]

PageOf(rel) == CHOOSE p \in pages : p.rel = rel

---------------------------------------------------------------------------
(* build(): its record, and the dev-mode guard around it *)

NewBuild(dev) ==
    [pc |-> "loadConfig", devMode |-> dev, skipImageCompression |-> dev,
     queue |-> {}, assets |-> {}, htmlFiles |-> {}, assetMap |-> <<>>,
     before |-> Empty, rewritten |-> {}, log |-> <<>>, ran |-> {}, hooks |-> <<>>, arrived |-> 0]

Running(b) == b.pc \notin {"done", "thrown", "gone"}

\* Only the latest call that has ended is remembered with its outcome.
Forget(bs) ==
    [i \in DOMAIN bs |->
        IF i < Len(bs) /\ ~Running(bs[i]) THEN [NewBuild(bs[i].devMode) EXCEPT !.pc = "gone"] ELSE bs[i]]

\* The stage events of a build, consecutive repeats recorded once.
Logged(b, t) ==
    IF b.log # <<>> /\ Last(b.log) = t THEN b ELSE [b EXCEPT !.log = Append(@, t)]

\* runBuild with its guard on building left out.
runBuildNoGuard(st) ==
    [st EXCEPT !.building = TRUE, !.builds = Append(Forget(@), NewBuild(TRUE))]

\* dev/watcher.ts runBuild, up to its await: st is [builds, building, pending].
runBuild(st) ==
    IF st.building
    THEN [st EXCEPT !.pending = TRUE]
    ELSE [st EXCEPT !.building = TRUE, !.builds = Append(Forget(@), NewBuild(TRUE))]

\* The finally block with the reset of pending left out.
runBuildFinallyKeepsPending(st) ==
    LET s1 == [st EXCEPT !.building = FALSE]
    IN  IF s1.pending THEN runBuild(s1) ELSE s1

\* dev/watcher.ts runBuild, its finally block.
\* The finally block left out: the guard is never released.
runBuildNoFinally(st) == st

runBuildFinally(st) ==
    LET s1 == [st EXCEPT !.building = FALSE]
    IN  IF s1.pending THEN runBuild([s1 EXCEPT !.pending = FALSE]) ELSE s1

\* build() number n returns (pcv = "done") or throws (pcv = "thrown") and its
\* locals are gone; in dev mode the runBuild that awaits it continues in the
\* same turn.
Settle(n, pcv, bs) ==
    LET st0 == [builds |-> [bs EXCEPT ![n] = [NewBuild(@.devMode) EXCEPT !.pc = pcv, !.arrived = bs[n].arrived]],
                building |-> building, pending |-> pending]
        st1 == IF mode = "dev" THEN runBuildFinally(st0) ELSE st0
    IN  /\ builds' = st1.builds
        /\ building' = st1.building
        /\ pending' = st1.pending

---------------------------------------------------------------------------
(* Cache-busting (build/assets.ts cacheBustAssets) *)

\* createHash("sha256").update(content).digest("hex").slice(0, 10): a fixed
\* hexadecimal string for each sequence of bytes, here two digits long.
hashHex(c) ==
    CASE c.bytes = "c1" /\ ~c.min -> <<"a","1">>
      [] c.bytes = "c1" /\ c.min  -> <<"c","3">>
      [] c.bytes = "c2" /\ ~c.min -> <<"b","2">>
      [] c.bytes = "c2" /\ c.min  -> <<"d","4">>
      [] OTHER -> <<"0","0">>

\* join(dirname(file), `${basename(file, ext)}-${hash}${ext}`), ext = extname(file)
hashedPath(file, hash) ==
    LET ext == extname(file)
        name == basename(file)
        base == SubSeq(name, 1, Len(name) - Len(ext))
    IN  dirPrefix(file) \o base \o <<"-">> \o hash \o ext

\* assetMap[original] = hashed; the map is a sequence of <<original, hashed>>
\* in the order Object.entries gives (first insertion of each key).
mapSet(am, k, v) ==
    IF \E i \in DOMAIN am : am[i][1] = k
    THEN [i \in DOMAIN am |-> IF am[i][1] = k THEN <<k, v>> ELSE am[i]]
    ELSE Append(am, <<k, v>>)

isAsset(f) == getExt(f) \in {DOT_CSS, DOT_JS}

\* new RegExp(`(<tag[^>]*?\\sattr=["'])/?${escaped}(["'])`, "gi") matches this
\* reference: the tag's name begins with tag, the attribute is attr, and the
\* value is the original path with or without a leading slash, all
\* regardless of letter case.
matchesRef(item, tag, attr, original) ==
    /\ startsWith(toLowerCase(item.tag), tag)
    /\ toLowerCase(item.attr) = attr
    /\ toLowerCase(item.val) \in {toLowerCase(original), <<"/">> \o toLowerCase(original)}

\* html.replace(pattern, `$1/${hashed}$2`)
replaceRefs(items, tag, attr, entry) ==
    [i \in DOMAIN items |->
        IF matchesRef(items[i], tag, attr, entry[1])
        THEN [items[i] EXCEPT !.val = <<"/">> \o entry[2]]
        ELSE items[i]]

\* One of the two loops over Object.entries(assetMap): h is [items, updated].
RECURSIVE updateTags(_, _, _, _, _)
updateTags(h, am, tag, attr, ext) ==
    IF am = <<>> THEN h
    ELSE LET e == Head(am)
             newItems == IF endsWith(e[1], ext) THEN replaceRefs(h.items, tag, attr, e) ELSE h.items
             h1 == IF newItems # h.items THEN [items |-> newItems, updated |-> TRUE] ELSE h
         IN  updateTags(h1, Tail(am), tag, attr, ext)

\* The body of the loop over htmlFiles.
rewriteHtml(items, am) ==
    updateTags(updateTags([items |-> items, updated |-> FALSE], am, T_link, A_href, DOT_CSS),
               am, T_script, A_src, DOT_JS)

---------------------------------------------------------------------------
(* The stages build() goes through after the pages (build/pipeline.ts) *)

afterCacheBust == IF mode = "cachebust" THEN "done" ELSE "robots"

afterMinifyHTML(b) ==
    IF ~b.devMode /\ cfg.cacheBustAssets THEN "cachebust" ELSE "robots"

afterMinifyCSS(b) ==
    IF ~b.devMode /\ cfg.minifyHTML THEN "minifyHTML" ELSE afterMinifyHTML(b)

afterRender(b) ==
    IF ~b.devMode /\ cfg.minifyCSS THEN "minifyCSS" ELSE afterMinifyCSS(b)

\* The image stage decided by the config toggle alone.
afterCopyAnyMode(b) ==
    IF cfg.compressPhotos THEN "images" ELSE "walk"

afterCopy(b) ==
    IF ~b.skipImageCompression /\ cfg.compressPhotos THEN "images" ELSE "walk"

\* The empty page set treated like any other.
noPagesNever(files) == FALSE

\* build(): files.length === 0, the early return
noPages(files) == files = {}

\* The page tasks started and not awaited.
pagesSettledNoAwait(n) == TRUE

\* await Promise.all(files.map(renderPage)) resolves
pagesSettled(n) == \A k \in DOMAIN tasks : k[1] = n => tasks[k] = "written"

\* A file the build is about to synthesize, written whatever exists.
missingAlways(name) == TRUE

\* !existsSync(join(publicDir, name)) && !existsSync(join(outDir, name))
missing(name) == name \notin DOMAIN pub /\ name \notin DOMAIN out

Pick(S) == CHOOSE x \in S : TRUE

---------------------------------------------------------------------------
(* Initial states *)

\* No pure function of utils/paths.ts is being applied.
NoCall == [arg |-> <<>>, trail |-> <<>>]

NothingRun ==
    /\ builds = <<>>
    /\ tasks = Empty
    /\ building = FALSE
    /\ pending = FALSE
    /\ watching = FALSE
    /\ events = 0

\* `camper build` in a project directory.
InitBuild ==
    /\ call = NoCall
    /\ mode = "build"
    /\ cfg \in Configs
    /\ pages \in PageSets
    /\ pub \in PublicSets
    /\ out = StaleOut
    /\ NothingRun

\* `camper dev` in a project directory.
InitDev ==
    /\ call = NoCall
    /\ mode = "dev"
    /\ cfg \in DevConfigs
    /\ pages \in DevPageSets
    /\ pub \in DevPublicSets
    /\ out = StaleOut
    /\ NothingRun

Init == InitBuild \/ InitDev

---------------------------------------------------------------------------
(* The command line (cli.ts main) and the dev loop (dev/watcher.ts dev) *)

DevState == [builds |-> builds, building |-> building, pending |-> pending]

Main ==
    /\ builds = <<>>
    /\ mode \in {"build", "dev"}
    /\ LET st == IF mode = "dev" THEN runBuild(DevState)
                 ELSE [DevState EXCEPT !.builds = <<NewBuild(FALSE)>>]
       IN  /\ builds' = st.builds
           /\ building' = st.building
           /\ pending' = st.pending
    /\ UNCHANGED <<call, mode, cfg, pages, pub, out, tasks, watching, events>>

\* dev(): after `await runBuild()` the watcher is registered.
StartWatch ==
    /\ mode = "dev"
    /\ ~watching
    /\ builds # <<>>
    /\ ~Running(builds[1])
    /\ watching' = TRUE
    /\ UNCHANGED <<call, mode, cfg, pages, pub, out, builds, tasks, building, pending, events>>

\* watcher.on("all", ...): a change event calls runBuild().
WatchEvent ==
    /\ watching
    /\ events < MaxEvents
    /\ events' = events + 1
    /\ LET seen == [n \in DOMAIN builds |->
                      IF Running(builds[n]) THEN [builds[n] EXCEPT !.arrived = @ + 1] ELSE builds[n]]
           st == runBuild([DevState EXCEPT !.builds = seen])
       IN  /\ builds' = st.builds
           /\ building' = st.building
           /\ pending' = st.pending
    /\ UNCHANGED <<call, mode, cfg, pages, pub, out, tasks, watching>>

---------------------------------------------------------------------------
(* build(), one action per awaited step (build/pipeline.ts) *)

BuildFrame == UNCHANGED <<call, mode, cfg, pages, pub, building, pending, watching, events>>

\* A hook that throws, with no try around the call.
hookEscapesWhenItThrows(outcome) == outcome = "throws"

\* try { config.hooks.nunjucksEnv(env) } catch (err) { console.error(...) }:
\* what the hook throws does not leave the try
hookEscapes(outcome) == FALSE

\* The hooks build() calls, in order: each one that is configured, up to
\* one whose exception escapes.
RECURSIVE hookCalls(_, _)
hookCalls(hooks, names) ==
    IF names = <<>> THEN <<>>
    ELSE LET h == Head(names)
         IN  IF hooks[h] = "none" THEN hookCalls(hooks, Tail(names))
             ELSE <<[hook |-> h, threw |-> hooks[h] = "throws", escaped |-> hookEscapes(hooks[h])]>>
                      \o (IF hookEscapes(hooks[h]) THEN <<>> ELSE hookCalls(hooks, Tail(names)))

\* await loadConfig; the environments and their hooks; then await loadData
LoadConfig(n) ==
    /\ n \in DOMAIN builds
    /\ builds[n].pc = "loadConfig"
    /\ LET calls == hookCalls(cfg.hooks, <<"nunjucksEnv", "liquidEnv">>)
           escaped == \E i \in DOMAIN calls : calls[i].escaped
           b == [builds[n] EXCEPT !.pc = IF escaped THEN "thrown" ELSE "loadData", !.hooks = calls]
       IN  builds' = [builds EXCEPT ![n] = IF calls = <<>> THEN b ELSE Logged(b, "hooks")]
    /\ UNCHANGED <<out, tasks>>
    /\ BuildFrame

LoadData(n) ==
    /\ n \in DOMAIN builds
    /\ builds[n].pc = "loadData"
    /\ builds' = [builds EXCEPT ![n].pc = "clean"]
    /\ UNCHANGED <<out, tasks>>
    /\ BuildFrame

\* await cleanDir(outDir); copyPublic starts with the walk of public/
CleanDir(n) ==
    /\ n \in DOMAIN builds
    /\ builds[n].pc = "clean"
    /\ out' = Empty
    /\ builds' = [builds EXCEPT ![n] = Logged([@ EXCEPT !.pc = "copy", !.queue = walkFiles(pub)], "clean")]
    /\ UNCHANGED tasks
    /\ BuildFrame

\* copyPublic: one file of the loop
CopyFile(n) ==
    /\ n \in DOMAIN builds
    /\ builds[n].pc = "copy"
    /\ builds[n].queue # {}
    /\ LET f == Pick(builds[n].queue)
       IN  /\ out' = IF shouldExcludeFile(f, cfg.excludeFiles) THEN out ELSE Put(out, f, pub[f])
           /\ builds' = [builds EXCEPT ![n] = Logged([@ EXCEPT !.queue = @ \ {f}], "copy")]
    /\ UNCHANGED tasks
    /\ BuildFrame

CopyDone(n) ==
    /\ n \in DOMAIN builds
    /\ builds[n].pc = "copy"
    /\ builds[n].queue = {}
    /\ builds' = [builds EXCEPT ![n].pc = afterCopy(builds[n])]
    /\ UNCHANGED <<out, tasks>>
    /\ BuildFrame

\* await processImages(outDir, config)
ProcessImages(n) ==
    /\ n \in DOMAIN builds
    /\ builds[n].pc = "images"
    /\ builds' = [builds EXCEPT ![n].pc = "walk", ![n].ran = @ \cup {"images"}]
    /\ UNCHANGED <<out, tasks>>
    /\ BuildFrame

\* files = await walkFiles(pagesDir); no page: return; else every renderPage
\* is called and runs to its first await
WalkPages(n) ==
    /\ n \in DOMAIN builds
    /\ builds[n].pc = "walk"
    /\ \/ /\ noPages(pages)
          /\ Settle(n, "done", builds)
          /\ UNCHANGED tasks
       \/ /\ ~noPages(pages)
          /\ builds' = [builds EXCEPT ![n].pc = "render"]
          /\ LET live == {k \in DOMAIN tasks : tasks[k] \in {"start", "ready"}}
                 new == {<<n, p.rel>> : p \in pages}
             IN  tasks' = [k \in live \cup new |-> IF k \in new THEN "start" ELSE tasks[k]]
          /\ UNCHANGED <<building, pending>>
    /\ UNCHANGED <<call, mode, cfg, pages, pub, out, watching, events>>

\* renderPage: read, parse, render and wrap; a throw rejects the Promise.all
\* of the build, which throws if it is still waiting for its pages
TaskRender(n, rel) ==
    /\ <<n, rel>> \in DOMAIN tasks
    /\ tasks[<<n, rel>>] = "start"
    /\ \/ /\ renderPage(PageOf(rel)).threw
          /\ tasks' = [tasks EXCEPT ![<<n, rel>>] = "failed"]
          /\ IF builds[n].pc = "render"
             THEN Settle(n, "thrown", builds)
             ELSE UNCHANGED <<builds, building, pending>>
       \/ /\ ~renderPage(PageOf(rel)).threw
          /\ tasks' = [tasks EXCEPT ![<<n, rel>>] = "ready"]
          /\ builds' = [builds EXCEPT ![n] = IF Running(@) THEN Logged(@, "render") ELSE @]
          /\ UNCHANGED <<building, pending>>
    /\ UNCHANGED <<call, mode, cfg, pages, pub, out, watching, events>>

\* renderPage: await writeFile(outPath, rendered) or await cp(filePath, outPath)
TaskWrite(n, rel) ==
    /\ <<n, rel>> \in DOMAIN tasks
    /\ tasks[<<n, rel>>] = "ready"
    /\ tasks' = [tasks EXCEPT ![<<n, rel>>] = "written"]
    /\ out' = Put(out, outRel(rel), renderPage(PageOf(rel)).content)
    /\ builds' = [builds EXCEPT ![n] = IF Running(@) THEN Logged(@, "write") ELSE @]
    /\ BuildFrame

\* the Promise.all resolved: on to the first finishing stage that is enabled
RenderDone(n) ==
    /\ n \in DOMAIN builds
    /\ builds[n].pc = "render"
    /\ pagesSettled(n)
    /\ builds' = [builds EXCEPT ![n].pc = afterRender(builds[n])]
    /\ UNCHANGED <<out, tasks>>
    /\ BuildFrame

\* await minifyCSSFiles(outDir)
MinifyCSS(n) ==
    /\ n \in DOMAIN builds
    /\ builds[n].pc = "minifyCSS"
    /\ out' = [f \in DOMAIN out |-> IF getExt(f) = DOT_CSS THEN [out[f] EXCEPT !.min = TRUE] ELSE out[f]]
    /\ builds' = [builds EXCEPT ![n] = Logged([@ EXCEPT !.pc = afterMinifyCSS(builds[n]), !.ran = @ \cup {"minifyCSS"}], "minify")]
    /\ UNCHANGED tasks
    /\ BuildFrame

\* await minifyHTMLFiles(outDir, config)
MinifyHTML(n) ==
    /\ n \in DOMAIN builds
    /\ builds[n].pc = "minifyHTML"
    /\ out' = [f \in DOMAIN out |-> IF getExt(f) = DOT_HTML THEN [out[f] EXCEPT !.min = TRUE] ELSE out[f]]
    /\ builds' = [builds EXCEPT ![n] = Logged([@ EXCEPT !.pc = afterMinifyHTML(builds[n]), !.ran = @ \cup {"minifyHTML"}], "minify")]
    /\ UNCHANGED tasks
    /\ BuildFrame

---------------------------------------------------------------------------
(* cacheBustAssets(outDir), one action per file (build/assets.ts) *)

\* files = await walkFiles(outDir), and the two filters over it
CacheBustWalk(n) ==
    /\ n \in DOMAIN builds
    /\ builds[n].pc = "cachebust"
    /\ LET assetFiles == {f \in DOMAIN out : isAsset(f)}
           htmlFiles == {f \in DOMAIN out : getExt(f) = DOT_HTML}
       IN  builds' = [builds EXCEPT ![n].pc = IF assetFiles = {} THEN "cb_html" ELSE "cb_rename",
                                    ![n].assets = assetFiles,
                                    ![n].htmlFiles = htmlFiles,
                                    ![n].assetMap = <<>>,
                                    ![n].before = out,
                                    ![n].rewritten = {},
                                    ![n].ran = @ \cup {"cacheBust"}]
    /\ UNCHANGED <<out, tasks>>
    /\ BuildFrame

\* the first loop: hash and rename one asset; the walk may list the assets
\* in any order
CacheBustRename(n, file) ==
    /\ n \in DOMAIN builds
    /\ builds[n].pc = "cb_rename"
    /\ file \in builds[n].assets
    /\ file \in DOMAIN out
    /\ LET left == builds[n].assets \ {file}
           hashed == hashedPath(file, hashHex(out[file]))
       IN  /\ out' = Put(Del(out, file), hashed, out[file])
           /\ builds' = [builds EXCEPT ![n] =
                  Logged([@ EXCEPT !.pc = IF left = {} THEN "cb_html" ELSE "cb_rename",
                                   !.assets = left,
                                   !.assetMap = mapSet(@, file, hashed)], "rename")]
    /\ UNCHANGED tasks
    /\ BuildFrame

\* the second loop: one HTML file is read, rewritten and, if changed, written
CacheBustRewrite(n) ==
    /\ n \in DOMAIN builds
    /\ builds[n].pc = "cb_html"
    /\ builds[n].htmlFiles # {}
    /\ LET htmlFile == Pick(builds[n].htmlFiles)
           h == rewriteHtml(out[htmlFile].items, builds[n].assetMap)
       IN  /\ out' = IF h.updated THEN [out EXCEPT ![htmlFile].items = h.items] ELSE out
           /\ builds' = [builds EXCEPT ![n] =
                  Logged([@ EXCEPT !.htmlFiles = @ \ {htmlFile},
                                   !.rewritten = IF h.updated THEN @ \cup {htmlFile} ELSE @],
                         "rewrite")]
    /\ UNCHANGED tasks
    /\ BuildFrame

\* return assetMap
CacheBustReturn(n) ==
    /\ n \in DOMAIN builds
    /\ builds[n].pc = "cb_html"
    /\ builds[n].htmlFiles = {}
    /\ builds' = [builds EXCEPT ![n].pc = afterCacheBust]
    /\ UNCHANGED <<out, tasks>>
    /\ BuildFrame

---------------------------------------------------------------------------
(* generateSitemap(outDir, siteUrl) (build/assets.ts) *)

\* The URL path with only the .html suffix removed.
sitemapUrlPathKeepsIndex(rel) ==
    IF endsWith(rel, DOT_HTML) THEN SubSeq(rel, 1, Len(rel) - 5) ELSE rel

\* The URL path of an .html file of the output tree.
sitemapUrlPath(rel) ==
    IF rel = INDEX_HTML THEN <<>>
    ELSE IF endsWith(rel, <<"/">> \o INDEX_HTML) THEN SubSeq(rel, 1, Len(rel) - 11)
    ELSE IF endsWith(rel, DOT_HTML) THEN SubSeq(rel, 1, Len(rel) - 5)
    ELSE rel

\* siteUrl.replace(/\/$/, "") + "/" + urlPath
sitemapLoc(siteUrl, rel) ==
    (IF endsWith(siteUrl, <<"/">>) THEN SubSeq(siteUrl, 1, Len(siteUrl) - 1) ELSE siteUrl)
        \o <<"/">> \o sitemapUrlPath(rel)

\* The loop over the walked files: one entry is pushed for each file whose
\* extension is .html, in the order of the walk.
RECURSIVE sitemapUrls(_, _)
sitemapUrls(files, siteUrl) ==
    IF files = {} THEN <<>>
    ELSE LET file == Pick(files)
             rest == sitemapUrls(files \ {file}, siteUrl)
         IN  IF getExt(file) # DOT_HTML THEN rest
             ELSE <<[loc |-> sitemapLoc(siteUrl, file), lastmod |-> "mtime"]>> \o rest

\* The entries of the urlset document generateSitemap returns.
generateSitemap(tree, siteUrl) == sitemapUrls(walkFiles(tree), siteUrl)

---------------------------------------------------------------------------
(* utils/paths.ts: toUrlPath, normalizeUrl, slugify *)

\* outRel.replace(/\\/g, "/")
slashes(s) == [i \in DOMAIN s |-> IF s[i] = "\\" THEN "/" ELSE s[i]]

\* String.prototype.trim, over the white space of the model's alphabet
RECURSIVE trimStart(_)
trimStart(s) == IF s # <<>> /\ Head(s) = " " THEN trimStart(Tail(s)) ELSE s

RECURSIVE trimEnd(_)
trimEnd(s) == IF s # <<>> /\ s[Len(s)] = " " THEN trimEnd(SubSeq(s, 1, Len(s) - 1)) ELSE s

trim(s) == trimEnd(trimStart(s))

toUrlPath(rel) ==
    LET path0 == <<"/">> \o slashes(rel)
        path1 == IF endsWith(path0, INDEX_HTML)
                 THEN SubSeq(path0, 1, Len(path0) - Len(INDEX_HTML))
                 ELSE path0
        path2 == IF path1 # <<"/">> /\ endsWith(path1, <<"/">>)
                 THEN SubSeq(path1, 1, Len(path1) - 1)
                 ELSE path1
    IN  IF path2 = <<>> THEN <<"/">> ELSE path2

normalizeUrl(url) ==
    IF url = <<>> THEN <<"/">>
    ELSE LET n0 == trim(url)
             n1 == IF n0 # <<"/">> /\ endsWith(n0, <<"/">>) THEN SubSeq(n0, 1, Len(n0) - 1) ELSE n0
             n2 == IF ~startsWith(n1, <<"/">>) THEN <<"/">> \o n1 ELSE n1
         IN  IF n2 # <<"/">> /\ endsWith(n2, DOT_HTML) THEN SubSeq(n2, 1, Len(n2) - 5) ELSE n2

\* \w of a regular expression: [A-Za-z0-9_]
isWordChar(c) ==
    \/ \E i \in DOMAIN LowerChars : c = LowerChars[i]
    \/ \E i \in DOMAIN UpperChars : c = UpperChars[i]
    \/ c \in {"0", "1", "2", "3", "4", "5", "6", "7", "8", "9", "_"}

\* \s of a regular expression, over the white space of the model's alphabet
isSpaceChar(c) == c = " "

\* [^\w\s-] does not match c
keptBySlugify(c) == isWordChar(c) \/ isSpaceChar(c) \/ c = "-"

\* .replace(/[^\w\s-]/g, "")
removeOthers(s) == SelectSeq(s, keptBySlugify)

\* [\s_-] matches c
isSeparator(c) == isSpaceChar(c) \/ c = "_" \/ c = "-"

RECURSIVE dropSeparators(_)
dropSeparators(s) == IF s # <<>> /\ isSeparator(Head(s)) THEN dropSeparators(Tail(s)) ELSE s

\* .replace(/[\s_-]/g, "-"): every separator on its own, runs not collapsed
hyphenateEach(s) == [i \in DOMAIN s |-> IF isSeparator(s[i]) THEN "-" ELSE s[i]]

\* .replace(/[\s_-]+/g, "-")
RECURSIVE hyphenate(_)
hyphenate(s) ==
    IF s = <<>> THEN <<>>
    ELSE IF isSeparator(Head(s)) THEN <<"-">> \o hyphenate(dropSeparators(Tail(s)))
    ELSE <<Head(s)>> \o hyphenate(Tail(s))

RECURSIVE stripHyphensStart(_)
stripHyphensStart(s) == IF s # <<>> /\ Head(s) = "-" THEN stripHyphensStart(Tail(s)) ELSE s

RECURSIVE stripHyphensEnd(_)
stripHyphensEnd(s) ==
    IF s # <<>> /\ s[Len(s)] = "-" THEN stripHyphensEnd(SubSeq(s, 1, Len(s) - 1)) ELSE s

\* .replace(/^-+|-+$/g, "")
stripHyphens(s) == stripHyphensEnd(stripHyphensStart(s))

slugify(text) == stripHyphens(hyphenate(removeOthers(trim(toLowerCase(text)))))

---------------------------------------------------------------------------
(* The end of build(): robots.txt and sitemap.xml (build/pipeline.ts) *)

Robots(n) ==
    /\ n \in DOMAIN builds
    /\ builds[n].pc = "robots"
    /\ out' = IF missing(F_robots)
              THEN Put(out, F_robots, Content("robots", F_robots, <<>>, <<>>, "-"))
              ELSE out
    /\ builds' = [builds EXCEPT ![n].pc = "sitemap"]
    /\ UNCHANGED tasks
    /\ BuildFrame

Sitemap(n) ==
    /\ n \in DOMAIN builds
    /\ builds[n].pc = "sitemap"
    /\ out' = IF missing(F_sitemap)
              THEN Put(out, F_sitemap, Content("sitemap", F_sitemap, <<>>, generateSitemap(out, cfg.siteUrl), "-"))
              ELSE out
    /\ Settle(n, "done", builds)
    /\ UNCHANGED <<call, mode, cfg, pages, pub, tasks, watching, events>>

---------------------------------------------------------------------------
(* The specification of the command line: `camper build` and `camper dev` *)

BuildIds == 1..(MaxEvents + 1)

Rels == {p.rel : p \in PageUniverse}

AssetNames == {e[1] : e \in PublicUniverse \cup AssetUniverse}

Next ==
    \/ Main
    \/ StartWatch
    \/ WatchEvent
    \/ \E n \in BuildIds : LoadConfig(n)
    \/ \E n \in BuildIds : LoadData(n)
    \/ \E n \in BuildIds : CleanDir(n)
    \/ \E n \in BuildIds : CopyFile(n)
    \/ \E n \in BuildIds : CopyDone(n)
    \/ \E n \in BuildIds : ProcessImages(n)
    \/ \E n \in BuildIds : WalkPages(n)
    \/ \E n \in BuildIds, rel \in Rels : TaskRender(n, rel)
    \/ \E n \in BuildIds, rel \in Rels : TaskWrite(n, rel)
    \/ \E n \in BuildIds : RenderDone(n)
    \/ \E n \in BuildIds : MinifyCSS(n)
    \/ \E n \in BuildIds : MinifyHTML(n)
    \/ \E n \in BuildIds : CacheBustWalk(n)
    \/ \E n \in BuildIds, file \in AssetNames : CacheBustRename(n, file)
    \/ \E n \in BuildIds : CacheBustRewrite(n)
    \/ \E n \in BuildIds : CacheBustReturn(n)
    \/ \E n \in BuildIds : Robots(n)
    \/ \E n \in BuildIds : Sitemap(n)

Spec == Init /\ [][Next]_vars

---------------------------------------------------------------------------
(* The specification of cacheBustAssets called on an output tree *)

RECURSIVE SeqsUpTo(_, _)
SeqsUpTo(S, k) ==
    IF k = 0 THEN {<<>>}
    ELSE LET shorter == SeqsUpTo(S, k - 1)
         IN  shorter \cup {Append(q, x) : q \in shorter, x \in S}

Html(src, items) == Content("page", src, <<>>, items, "-")

\* i.html holds up to MaxItems references; n.html holds none in a tag.
Trees ==
    { [f \in {e[1] : e \in as} \cup {F_i_html, F_n_html} |->
          IF f = F_i_html THEN Html(f, items)
          ELSE IF f = F_n_html THEN Html(f, <<Ref(<<>>, <<>>, <<"/">> \o F_s_css)>>)
          ELSE Content("public", f, <<>>, <<>>, (CHOOSE e \in as : e[1] = f)[2])] :
        as \in {x \in SUBSET AssetUniverse : Cardinality(x) <= MaxAssets},
        items \in SeqsUpTo(ItemUniverse, MaxItems) }

InitCacheBust ==
    /\ call = NoCall
    /\ mode = "cachebust"
    /\ cfg = defaultConfig
    /\ pages = {}
    /\ pub = Empty
    /\ out \in Trees
    /\ NothingRun

\* cacheBustAssets(outDir) is called; its frame is kept like that of a build
CallCacheBust ==
    /\ mode = "cachebust"
    /\ builds = <<>>
    /\ builds' = <<[NewBuild(FALSE) EXCEPT !.pc = "cachebust"]>>
    /\ UNCHANGED <<call, mode, cfg, pages, pub, out, tasks, building, pending, watching, events>>

NextCacheBust ==
    \/ CallCacheBust
    \/ \E n \in BuildIds : CacheBustWalk(n)
    \/ \E n \in BuildIds, file \in AssetNames : CacheBustRename(n, file)
    \/ \E n \in BuildIds : CacheBustRewrite(n)
    \/ \E n \in BuildIds : CacheBustReturn(n)

SpecCacheBust == InitCacheBust /\ [][NextCacheBust]_vars

---------------------------------------------------------------------------
(* copyPublic(publicDir, outDir, excludePatterns) on its own (utils/fs.ts) *)

\* The files of a public directory: names in either letter case, an inner
\* dot, a hidden file.
CopyUniverse ==
    { <<"a",".","p","d","f">>, <<"B",".","P","D","F">>, <<"a",".","m","i","n",".","j","s">>,
      <<"a","b",".","t","x","t">>, <<".","h",".","t","x","t">> }

\* The patterns a config may list in excludeFiles.
PatternUniverse ==
    { <<"*",".","p","d","f">>, <<".","P","D","F">>, <<"a","b",".","t","x","t">>,
      <<"*",".","m","i","n",".","j","s">>, <<"a","*">>, <<"a","?",".","t","x","t">> }

CopyTrees ==
    { [f \in fs |-> Content("public", f, <<>>, <<>>, "c1")] :
        fs \in {x \in SUBSET CopyUniverse : Cardinality(x) <= MaxCopied} }

InitCopy ==
    /\ call = NoCall
    /\ mode = "copy"
    /\ cfg \in {[defaultConfig EXCEPT !.excludeFiles = ps] : ps \in SeqsUpTo(PatternUniverse, MaxPatterns)}
    /\ pages = {}
    /\ pub \in CopyTrees
    /\ out = Empty
    /\ NothingRun

\* copyPublic is called: files = await walkFiles(publicDir)
CallCopyPublic ==
    /\ mode = "copy"
    /\ builds = <<>>
    /\ builds' = <<[NewBuild(FALSE) EXCEPT !.pc = "copy", !.queue = walkFiles(pub)]>>
    /\ UNCHANGED <<call, mode, cfg, pages, pub, out, tasks, building, pending, watching, events>>

\* the loop over files has ended
CopyReturn(n) ==
    /\ mode = "copy"
    /\ n \in DOMAIN builds
    /\ builds[n].pc = "copy"
    /\ builds[n].queue = {}
    /\ builds' = [builds EXCEPT ![n].pc = "done"]
    /\ UNCHANGED <<out, tasks>>
    /\ BuildFrame

NextCopy ==
    \/ CallCopyPublic
    \/ \E n \in BuildIds : CopyFile(n)
    \/ \E n \in BuildIds : CopyReturn(n)

SpecCopy == InitCopy /\ [][NextCopy]_vars

---------------------------------------------------------------------------
(* generateSitemap over output trees, as the end of build() calls it *)

F_blog_index == <<"b","/">> \o INDEX_HTML
F_a_html == <<"a",".","h","t","m","l">>
F_b_a_html == <<"b","/","a",".","h","t","m","l">>

\* An output tree's files: the root index, a directory index, two pages,
\* a stylesheet.
ListedUniverse == {INDEX_HTML, F_blog_index, F_a_html, F_b_a_html, F_s_css}

ListedTrees ==
    { [f \in fs |-> IF getExt(f) = DOT_HTML THEN Html(f, <<>>) ELSE Content("public", f, <<>>, <<>>, "c1")] :
        fs \in {x \in SUBSET ListedUniverse : Cardinality(x) <= MaxListed} }

InitSitemap ==
    /\ call = NoCall
    /\ mode = "sitemap"
    /\ cfg \in {[defaultConfig EXCEPT !.siteUrl = u] : u \in {U_site, U_site_slash}}
    /\ pages = {}
    /\ pub = Empty
    /\ out \in ListedTrees
    /\ NothingRun

\* build() has reached its last step
CallGenerateSitemap ==
    /\ mode = "sitemap"
    /\ builds = <<>>
    /\ builds' = <<[NewBuild(FALSE) EXCEPT !.pc = "sitemap", !.before = out]>>
    /\ UNCHANGED <<call, mode, cfg, pages, pub, out, tasks, building, pending, watching, events>>

NextSitemap ==
    \/ CallGenerateSitemap
    \/ \E n \in BuildIds : Sitemap(n)

SpecSitemap == InitSitemap /\ [][NextSitemap]_vars

---------------------------------------------------------------------------
(* toUrlPath and normalizeUrl applied to paths and URLs (utils/paths.ts) *)

\* What a path or URL is made of: a name, the separators, white space, the
\* .html suffix, index.html.
PathTokens == {<<"a">>, <<"/">>, <<"\\">>, <<" ">>, DOT_HTML, INDEX_HTML}

RECURSIVE Concat(_)
Concat(ts) == IF ts = <<>> THEN <<>> ELSE Head(ts) \o Concat(Tail(ts))

PathStrings == {Concat(ts) : ts \in SeqsUpTo(PathTokens, MaxTokens)}

\* The three spellings of one URL: bare, with .html, with a trailing slash.
Spellings(x) == {<<"/">> \o x, <<"/">> \o x \o DOT_HTML, <<"/">> \o x \o <<"/">>}

Applied(fn, input, output) == [fn |-> fn, input |-> input, output |-> output]

InitUrl ==
    /\ call \in {[arg |-> x, trail |-> <<>>] : x \in PathStrings}
    /\ mode = "url"
    /\ cfg = defaultConfig
    /\ pages = {}
    /\ pub = Empty
    /\ out = Empty
    /\ NothingRun

CallFrame == UNCHANGED <<mode, cfg, pages, pub, out, builds, tasks, building, pending, watching, events>>

\* renderPage: path = toUrlPath(outRel)
ApplyToUrlPath ==
    /\ mode = "url"
    /\ \A i \in DOMAIN call.trail : i = 1 /\ call.trail[i].fn = "generateSitemap"
    /\ call' = [call EXCEPT !.trail = Append(@, Applied("toUrlPath", call.arg, toUrlPath(call.arg)))]
    /\ CallFrame

\* generateSitemap: the loc of an .html file, less the site URL
ApplyGenerateSitemap ==
    /\ mode = "url"
    /\ call.trail = <<>>
    /\ getExt(call.arg) = DOT_HTML
    /\ LET loc == sitemapLoc(cfg.siteUrl, slashes(call.arg))
       IN  call' = [call EXCEPT !.trail =
                       <<Applied("generateSitemap", call.arg,
                                 SubSeq(loc, Len(cfg.siteUrl) + 1, Len(loc)))>>]
    /\ CallFrame

\* normalizeUrl applied to the result of the application before
ApplyNormalizeUrl ==
    /\ mode = "url"
    /\ call.trail # <<>>
    /\ Len(call.trail) < MaxCalls
    /\ Last(call.trail).fn \in {"toUrlPath", "normalizeUrl"}
    /\ call' = [call EXCEPT !.trail =
                   Append(@, Applied("normalizeUrl", Last(@).output, normalizeUrl(Last(@).output)))]
    /\ CallFrame

\* pageContext isActive: normalizeUrl applied to one spelling of a URL
ApplyNormalizeSpelling(u) ==
    /\ mode = "url"
    /\ Len(call.trail) < MaxCalls
    /\ u \in Spellings(call.arg)
    /\ \A i \in DOMAIN call.trail : call.trail[i].fn = "normalizeSpelling" /\ call.trail[i].input # u
    /\ call' = [call EXCEPT !.trail = Append(@, Applied("normalizeSpelling", u, normalizeUrl(u)))]
    /\ CallFrame

NextUrl ==
    \/ ApplyToUrlPath
    \/ ApplyGenerateSitemap
    \/ ApplyNormalizeUrl
    \/ \E sfx \in {<<>>, DOT_HTML, <<"/">>} : ApplyNormalizeSpelling(<<"/">> \o call.arg \o sfx)

SpecUrl == InitUrl /\ [][NextUrl]_vars

---------------------------------------------------------------------------
(* slugify applied to texts, and to its own results (utils/paths.ts) *)

\* What a text is made of: letters of both cases, a digit, white space, the
\* two other separators, punctuation.
SlugChars == {"A", "b", "1", " ", "_", "-", "!"}

SlugTexts == SeqsUpTo(SlugChars, MaxSlugLen)

InitSlug ==
    /\ call \in {[arg |-> x, trail |-> <<>>] : x \in SlugTexts}
    /\ mode = "slug"
    /\ cfg = defaultConfig
    /\ pages = {}
    /\ pub = Empty
    /\ out = Empty
    /\ NothingRun

ApplySlugify ==
    /\ mode = "slug"
    /\ call.trail = <<>>
    /\ call' = [call EXCEPT !.trail = <<Applied("slugify", call.arg, slugify(call.arg))>>]
    /\ CallFrame

\* slugify applied to the result of the application before
ApplySlugifyAgain ==
    /\ mode = "slug"
    /\ call.trail # <<>>
    /\ Len(call.trail) < MaxCalls
    /\ call' = [call EXCEPT !.trail =
                   Append(@, Applied("slugify", Last(@).output, slugify(Last(@).output)))]
    /\ CallFrame

NextSlug ==
    \/ ApplySlugify
    \/ ApplySlugifyAgain

SpecSlug == InitSlug /\ [][NextSlug]_vars

---------------------------------------------------------------------------
(* loadData (data/loader.ts) *)

DOT_JSON == <<".","j","s","o","n">>

F_i_json == <<"i",".","j","s","o","n">>
F_m_json == <<"m",".","j","s","o","n">>
F_i_JSON == <<"i",".","J","S","O","N">>

DataUniverse == {F_i_json, F_m_json, F_i_JSON}

\* What a data file holds: JSON text, or (i.json) text that does not parse.
DataTexts(file) == IF file = F_i_json THEN {"json", "malformed"} ELSE {"json"}

DataTrees ==
    UNION {{t \in [fs -> {"json", "malformed"}] : \A f \in fs : t[f] \in DataTexts(f)} :
              fs \in {x \in SUBSET DataUniverse : Cardinality(x) <= MaxDataFiles}}

\* A configured data directory: it exists with some files, or it does not.
DataDirs ==
    {[exists |-> TRUE, tree |-> t] : t \in DataTrees} \cup {[exists |-> FALSE, tree |-> Empty]}

\* path.basename(file, ".json"): the suffix is removed when it is there,
\* compared as it is written.
basenameWithout(file, ext) ==
    LET name == basename(file)
    IN  IF name # ext /\ endsWith(name, ext)
        THEN SubSeq(name, 1, Len(name) - Len(ext))
        ELSE name

\* const name = basename(file, ".json")
collectionKey(file) == basenameWithout(file, DOT_JSON)

parseNeverThrows(raw) == FALSE

\* JSON.parse(raw) throws
parseThrows(raw) == raw = "malformed"

\* JSON.parse(raw) of the file at path file of the d-th directory
parsed(d, file) == [dir |-> d, file |-> file]

InitData ==
    /\ call \in {[arg |-> dirs, trail |-> <<>>, pc |-> "dirs", d |-> 1, files |-> {},
                   collections |-> Empty] : dirs \in SeqsUpTo(DataDirs, MaxDataDirs)}
    /\ mode = "data"
    /\ cfg = defaultConfig
    /\ pages = {}
    /\ pub = Empty
    /\ out = Empty
    /\ NothingRun

\* for (const dataDir of dirs): skip a missing directory, walk an existing one
LoadDataDir ==
    /\ mode = "data"
    /\ call.pc = "dirs"
    /\ call.d <= Len(call.arg)
    /\ call' = IF ~call.arg[call.d].exists
               THEN [call EXCEPT !.d = @ + 1]
               ELSE [call EXCEPT !.pc = "files", !.files = walkFiles(call.arg[call.d].tree)]
    /\ CallFrame

\* for (const file of files): one file, .json or not, parsed or logged
LoadDataFile(file) ==
    /\ mode = "data"
    /\ call.pc = "files"
    /\ file \in call.files
    /\ LET raw == call.arg[call.d].tree[file]
           after == IF getExt(file) # DOT_JSON \/ parseThrows(raw)
                    THEN call.collections
                    ELSE Put(call.collections, collectionKey(file), parsed(call.d, file))
       IN  call' = [call EXCEPT !.files = @ \ {file},
                                !.collections = after,
                                !.trail = Append(@, Applied("file", <<call.d, file>>, after))]
    /\ CallFrame

\* the files of one directory are exhausted
LoadDataDirDone ==
    /\ mode = "data"
    /\ call.pc = "files"
    /\ call.files = {}
    /\ call' = [call EXCEPT !.pc = "dirs", !.d = @ + 1]
    /\ CallFrame

\* return collections
LoadDataReturn ==
    /\ mode = "data"
    /\ call.pc = "dirs"
    /\ call.d > Len(call.arg)
    /\ call' = [call EXCEPT !.pc = "returned"]
    /\ CallFrame

NextData ==
    \/ LoadDataDir
    \/ \E file \in DataUniverse : LoadDataFile(file)
    \/ LoadDataDirDone
    \/ LoadDataReturn

SpecData == InitData /\ [][NextData]_vars

---------------------------------------------------------------------------
(* loadConfig (config.ts) *)

\* defaultConfig with its nested settings; the fields the other
\* specifications read are those of defaultConfig.
defaultConfigNested ==
    [minifyCSS |-> FALSE,
     port |-> 4173,
     compressionSettings |-> [quality |-> 80, preserveOriginal |-> TRUE],
     integrations |-> [nunjucks |-> TRUE, liquid |-> FALSE]]

\* { ...a, ...b }: the keys of both, b's value where b has the key
Spread(a, b) == [k \in (DOMAIN a) \cup (DOMAIN b) |-> IF k \in DOMAIN b THEN b[k] ELSE a[k]]

\* The records that give some of the keys of r, with r's values.
Partial(r) == {[k \in ks |-> r[k]] : ks \in SUBSET DOMAIN r}

\* What a campsite.config.js may export: values other than the defaults
\* for some of the fields, nested settings given in part.
UserConfigs ==
    {Spread(Spread(scalars, cs), ig) :
        scalars \in Partial([minifyCSS |-> TRUE, port |-> 8080]),
        cs \in {Empty} \cup {[compressionSettings |-> n] :
                                n \in Partial([quality |-> 50, preserveOriginal |-> FALSE])},
        ig \in {Empty} \cup {[integrations |-> n] :
                                n \in Partial([nunjucks |-> FALSE, liquid |-> TRUE])}}

\* The file is missing, importing it throws, or it exports a user config.
ConfigFiles ==
    {[file |-> "missing", user |-> Empty], [file |-> "throws", user |-> Empty]}
        \cup {[file |-> "module", user |-> u] : u \in UserConfigs}

InitConfig ==
    /\ call \in {[arg |-> c, trail |-> <<>>] : c \in ConfigFiles}
    /\ mode = "config"
    /\ cfg = defaultConfig
    /\ pages = {}
    /\ pub = Empty
    /\ out = Empty
    /\ NothingRun

ConfigReturn(value) ==
    /\ call' = [call EXCEPT !.trail = <<Applied("loadConfig", call.arg, value)>>]
    /\ CallFrame

\* if (!existsSync(configPath)) return { ...defaultConfig }
LoadConfigMissing ==
    /\ mode = "config"
    /\ call.trail = <<>>
    /\ call.arg.file = "missing"
    /\ ConfigReturn(Spread(defaultConfigNested, Empty))

\* return { ...defaultConfig, ...user }
LoadConfigMerge ==
    /\ mode = "config"
    /\ call.trail = <<>>
    /\ call.arg.file = "module"
    /\ ConfigReturn(Spread(defaultConfigNested, call.arg.user))

\* catch (err): return { ...defaultConfig }
LoadConfigCatch ==
    /\ mode = "config"
    /\ call.trail = <<>>
    /\ call.arg.file = "throws"
    /\ ConfigReturn(Spread(defaultConfigNested, Empty))

NextConfig ==
    \/ LoadConfigMissing
    \/ LoadConfigMerge
    \/ LoadConfigCatch

SpecConfig == InitConfig /\ [][NextConfig]_vars

---------------------------------------------------------------------------
(* renderPage: the engine of a page and its Markdown pass (config.ts) *)

DOT_LIQUID_HTML == DOT_LIQUID \o DOT_HTML

\* One page file per variant, an upper-case spelling, and a file of no
\* variant.
VariantFiles ==
    {<<"a">> \o DOT_MD, <<"a",".","M","D">>, <<"a">> \o DOT_NJK, <<"a">> \o DOT_LIQUID,
     <<"a">> \o DOT_LIQUID_HTML, <<"a">> \o DOT_MUSTACHE, <<"a">> \o DOT_HTML, <<"a">> \o DOT_TXT}

\* What the frontmatter holds under the key markdown, as YAML gives it:
\* nothing, a boolean, or a value of another type.
MarkdownValues == {"undefined", "true", "false", "'no'", "0", "null"}

\* typeof frontmatter?.markdown === "boolean"
isBoolean(v) == v \in {"true", "false"}

shouldRenderMarkdown(frontmatter, defaultValue) ==
    IF isBoolean(frontmatter.markdown) THEN frontmatter.markdown = "true" ELSE defaultValue

\* The branch of renderPage a file takes.
variantOf(filePath) ==
    LET ext == getExt(filePath)
    IN  IF ext = DOT_MD THEN "md"
        ELSE IF ext = DOT_NJK THEN "njk"
        ELSE IF ext = DOT_LIQUID \/ endsWith(toLowerCase(filePath), DOT_LIQUID_HTML) THEN "liquid"
        ELSE IF ext = DOT_MUSTACHE THEN "mustache"
        ELSE IF ext = DOT_HTML THEN "html"
        ELSE "copy"

\* The call that produces the body of a page of a variant.
engineCall(variant) ==
    CASE variant = "md" -> "md.render"
      [] variant = "njk" -> "renderString"
      [] variant = "liquid" -> "parseAndRender"
      [] variant = "mustache" -> "Mustache.render"
      [] variant = "html" -> "parsed.content"
      [] OTHER -> "cp"

InitMarkdown ==
    /\ call \in {[arg |-> [filePath |-> f, frontmatter |-> [markdown |-> v]], trail |-> <<>>] :
                    f \in VariantFiles, v \in MarkdownValues}
    /\ mode = "markdown"
    /\ cfg = defaultConfig
    /\ pages = {}
    /\ pub = Empty
    /\ out = Empty
    /\ NothingRun

\* The branch of the file's variant produces the body (or copies the file).
RenderBody ==
    /\ mode = "markdown"
    /\ call.trail = <<>>
    /\ LET fn == engineCall(variantOf(call.arg.filePath))
       IN  call' = [call EXCEPT !.trail = <<Applied(fn, <<>>, <<fn>>)>>]
    /\ CallFrame

\* if (shouldRenderMarkdown(parsed.data, config, false)) pageHtml = md.render(pageHtml)
MarkdownPass ==
    /\ mode = "markdown"
    /\ Len(call.trail) = 1
    /\ call.trail[1].fn \in {"renderString", "parseAndRender", "Mustache.render", "parsed.content"}
    /\ shouldRenderMarkdown(call.arg.frontmatter, FALSE)
    /\ call' = [call EXCEPT !.trail =
                   Append(@, Applied("md.render", Last(@).output, Append(Last(@).output, "md.render")))]
    /\ CallFrame

\* await finalizePage(pageHtml, parsed.data)
FinalizePage ==
    /\ mode = "markdown"
    /\ call.trail # <<>>
    /\ Last(call.trail).fn \notin {"cp", "finalizePage"}
    /\ \/ Last(call.trail).fn = "md.render"
       \/ ~shouldRenderMarkdown(call.arg.frontmatter, FALSE)
    /\ call' = [call EXCEPT !.trail = Append(@, Applied("finalizePage", Last(@).output, Last(@).output))]
    /\ CallFrame

NextMarkdown ==
    \/ RenderBody
    \/ MarkdownPass
    \/ FinalizePage

SpecMarkdown == InitMarkdown /\ [][NextMarkdown]_vars

---------------------------------------------------------------------------
(* build() of a project whose config has environment hooks (build/pipeline.ts) *)

\* config.hooks.nunjucksEnv / liquidEnv: not set, a function that returns,
\* a function that throws.
HookOutcomes == {"none", "returns", "throws"}

HookConfigs ==
    {[c EXCEPT !.hooks = [nunjucksEnv |-> a, liquidEnv |-> b]] :
        c \in {defaultConfig,
               [defaultConfig EXCEPT !.minifyCSS = TRUE, !.minifyHTML = TRUE,
                                     !.cacheBustAssets = TRUE, !.compressPhotos = TRUE]},
        a \in HookOutcomes, b \in HookOutcomes}

\* `camper build` in a project directory whose config may set hooks.
InitHooks ==
    /\ call = NoCall
    /\ mode = "build"
    /\ cfg \in HookConfigs
    /\ pages \in DevPageSets
    /\ pub \in DevPublicSets
    /\ out = StaleOut
    /\ NothingRun

NextHooks ==
    \/ Main
    \/ \E n \in BuildIds : LoadConfig(n)
    \/ \E n \in BuildIds : LoadData(n)
    \/ \E n \in BuildIds : CleanDir(n)
    \/ \E n \in BuildIds : CopyFile(n)
    \/ \E n \in BuildIds : CopyDone(n)
    \/ \E n \in BuildIds : ProcessImages(n)
    \/ \E n \in BuildIds : WalkPages(n)
    \/ \E n \in BuildIds, rel \in Rels : TaskRender(n, rel)
    \/ \E n \in BuildIds, rel \in Rels : TaskWrite(n, rel)
    \/ \E n \in BuildIds : RenderDone(n)
    \/ \E n \in BuildIds : MinifyCSS(n)
    \/ \E n \in BuildIds : MinifyHTML(n)
    \/ \E n \in BuildIds : CacheBustWalk(n)
    \/ \E n \in BuildIds, file \in AssetNames : CacheBustRename(n, file)
    \/ \E n \in BuildIds : CacheBustRewrite(n)
    \/ \E n \in BuildIds : CacheBustReturn(n)
    \/ \E n \in BuildIds : Robots(n)
    \/ \E n \in BuildIds : Sitemap(n)

SpecHooks == InitHooks /\ [][NextHooks]_vars

---------------------------------------------------------------------------
(* processImages and processImage (build/assets.ts) *)

F_a_jpg == <<"a">> \o DOT_JPG
F_a_png == <<"a">> \o DOT_PNG
F_b_png == <<"p","/","b">> \o DOT_PNG

ImageUniverse == {F_a_jpg, F_a_png, F_b_png}

\* An image file is one sharp can read ("sound") or one it cannot
\* ("corrupt"); a stylesheet lies next to the images.
ImageTrees ==
    {Put(imgs, F_s_css, Content("public", F_s_css, <<>>, <<>>, "c1")) :
        imgs \in UNION {[fs -> {Content("image", <<>>, <<>>, <<>>, "sound"),
                                Content("image", <<>>, <<>>, <<>>, "corrupt")}] :
                           fs \in {x \in SUBSET ImageUniverse : Cardinality(x) <= MaxImages}}}

\* compressionSettings.formats: formats sharp writes, one that is also an
\* input format, one processImage has no branch for.
FormatLists == SeqsUpTo({DOT_WEBP, DOT_PNG, DOT_GIF}, MaxFormats) \ {<<>>}

ImageConfigs ==
    {defaultConfig} \cup
    {[defaultConfig EXCEPT !.compressPhotos = TRUE,
                           !.compressionSettings.formats = fmts,
                           !.compressionSettings.preserveOriginal = keep] :
        fmts \in FormatLists, keep \in BOOLEAN}

includes(list, x) == \E i \in DOMAIN list : list[i] = x

shouldProcessImage(filePath, config) ==
    /\ config.compressPhotos
    /\ includes(config.compressionSettings.inputFormats, getExt(filePath))

\* join(dir, `${baseName}${format}`)
outputPath(inputPath, format) ==
    SubSeq(inputPath, 1, Len(inputPath) - Len(extname(inputPath))) \o format

\* processImage has a branch for the format
supported(format) == format \in {DOT_WEBP, DOT_AVIF, DOT_JPG, DOT_JPEG, DOT_PNG}

\* A conversion whose exception is not caught.
conversionEscapesWhenItThrows(threw) == threw

\* try { ... toFile(outputPath) ... } catch (err) { console.error(...) }
conversionEscapes(threw) == FALSE

\* sharp(inputPath)...toFile(outputPath) throws: the input is missing or
\* cannot be read, or the output is the input file
toFileThrows(tree, inputPath, format) ==
    \/ inputPath \notin DOMAIN tree
    \/ tree[inputPath].bytes = "corrupt"
    \/ outputPath(inputPath, format) = inputPath

InitImages ==
    /\ mode = "images"
    /\ cfg \in ImageConfigs
    /\ out \in ImageTrees
    /\ call = [arg |-> out, trail |-> <<>>, pc |-> "start", images |-> Empty]
    /\ pages = {}
    /\ pub = Empty
    /\ NothingRun

ImagesFrame == UNCHANGED <<mode, cfg, pages, pub, builds, tasks, building, pending, watching, events>>

\* processImages up to Promise.all: the toggle, the walk, the filter
ProcessImagesStart ==
    /\ mode = "images"
    /\ call.pc = "start"
    /\ LET imageFiles == {f \in walkFiles(out) : shouldProcessImage(f, cfg)}
       IN  call' = IF ~cfg.compressPhotos \/ imageFiles = {}
                   THEN [call EXCEPT !.pc = "returned"]
                   ELSE [call EXCEPT !.pc = "all",
                                     !.images = [f \in imageFiles |->
                                                  [pc |-> "stat", next |-> 1, results |-> <<>>, tried |-> <<>>]]]
    /\ UNCHANGED out
    /\ ImagesFrame

\* const originalStats = await stat(file)
ImageStat(file) ==
    /\ mode = "images"
    /\ call.pc = "all"
    /\ file \in DOMAIN call.images
    /\ call.images[file].pc = "stat"
    /\ call' = IF file \in DOMAIN out
               THEN [call EXCEPT !.images[file].pc = "convert"]
               ELSE [call EXCEPT !.pc = "thrown"]
    /\ UNCHANGED out
    /\ ImagesFrame

\* processImage: one turn of the loop over the formats
ImageConvert(file) ==
    /\ mode = "images"
    /\ call.pc = "all"
    /\ file \in DOMAIN call.images
    /\ call.images[file].pc = "convert"
    /\ call.images[file].next <= Len(cfg.compressionSettings.formats)
    /\ LET format == cfg.compressionSettings.formats[call.images[file].next]
           read == IF file \in DOMAIN out THEN out[file].bytes ELSE "missing"
           threw == supported(format) /\ toFileThrows(out, file, format)
           outcome == IF ~supported(format) THEN "continue" ELSE IF threw THEN "caught" ELSE "pushed"
           entry == Applied("toFile", <<format, read>>, outcome)
       IN  IF conversionEscapes(threw)
           THEN /\ call' = [call EXCEPT !.pc = "thrown", !.images[file].tried = Append(@, entry)]
                /\ UNCHANGED out
           ELSE /\ call' = [call EXCEPT !.images[file].next = @ + 1,
                                         !.images[file].results =
                                             IF outcome = "pushed" THEN Append(@, format) ELSE @,
                                         !.images[file].tried = Append(@, entry)]
                /\ out' = IF outcome = "pushed"
                          THEN Put(out, outputPath(file, format), Content("image", file, <<>>, <<>>, "sound"))
                          ELSE out
    /\ ImagesFrame

\* the formats are exhausted: the original is removed when it may be
ImageFinish(file) ==
    /\ mode = "images"
    /\ call.pc = "all"
    /\ file \in DOMAIN call.images
    /\ call.images[file].pc = "convert"
    /\ call.images[file].next > Len(cfg.compressionSettings.formats)
    /\ out' = IF ~cfg.compressionSettings.preserveOriginal /\ call.images[file].results # <<>>
              THEN Del(out, file)
              ELSE out
    /\ call' = [call EXCEPT !.images[file].pc = "done"]
    /\ ImagesFrame

\* await Promise.all(...) resolves; the totals are logged
ProcessImagesReturn ==
    /\ mode = "images"
    /\ call.pc = "all"
    /\ \A f \in DOMAIN call.images : call.images[f].pc = "done"
    /\ call' = [call EXCEPT !.pc = "returned"]
    /\ UNCHANGED out
    /\ ImagesFrame

NextImages ==
    \/ ProcessImagesStart
    \/ \E file \in ImageUniverse : ImageStat(file)
    \/ \E file \in ImageUniverse : ImageConvert(file)
    \/ \E file \in ImageUniverse : ImageFinish(file)
    \/ ProcessImagesReturn

SpecImages == InitImages /\ [][NextImages]_vars

---------------------------------------------------------------------------
(* The dev server's request handler (dev/server.ts) *)

\* What a request URL is made of: separators, a name, dots, an escaped dot,
\* an escaped slash, a percent sign that starts no escape, a query.
UrlTokens ==
    {<<"/">>, <<"a">>, <<".">>, <<".",".">>, <<"%","2","e">>, <<"%","2","F">>, <<"%">>, <<"?">>}

RequestUrls == {Concat(ts) : ts \in SeqsUpTo(UrlTokens, MaxUrlTokens)}

F_404_html == <<"4","0","4">> \o DOT_HTML
F_a_index == <<"a","/">> \o INDEX_HTML

ServeTrees ==
    {Empty,
     [f \in {INDEX_HTML} |-> Content("page", f, <<>>, <<>>, "-")],
     [f \in {INDEX_HTML, F_404_html, F_a_index} |-> Content("page", f, <<>>, <<>>, "-")]}

\* (req.url || "/").split("?")[0]
beforeQuery(url) ==
    LET u == IF url = <<>> THEN <<"/">> ELSE url
        i == indexOf(u, <<"?">>)
    IN  IF i = 0 THEN u ELSE SubSeq(u, 1, i - 1)

\* decodeURI: %2e is decoded, %2F (a reserved character) is left as it is,
\* a percent sign that starts no escape is a URIError
RECURSIVE decodeURI(_)
decodeURI(s) ==
    IF s = <<>> THEN [threw |-> FALSE, value |-> <<>>]
    ELSE IF Head(s) # "%"
         THEN LET rest == decodeURI(Tail(s))
              IN  [threw |-> rest.threw, value |-> <<Head(s)>> \o rest.value]
    ELSE IF startsWith(s, <<"%","2","e">>)
         THEN LET rest == decodeURI(SubSeq(s, 4, Len(s)))
              IN  [threw |-> rest.threw, value |-> <<".">> \o rest.value]
    ELSE IF startsWith(s, <<"%","2","F">>)
         THEN LET rest == decodeURI(SubSeq(s, 4, Len(s)))
              IN  [threw |-> rest.threw, value |-> <<"%","2","F">> \o rest.value]
    ELSE [threw |-> TRUE, value |-> <<>>]

\* .replace(/\.\.+/g, ""): every run of two or more dots is removed
RECURSIVE removeDotRuns(_)
removeDotRuns(s) ==
    IF s = <<>> THEN <<>>
    ELSE IF Head(s) # "." THEN <<Head(s)>> \o removeDotRuns(Tail(s))
    ELSE LET n == CHOOSE k \in 1..Len(s) :
                      /\ \A i \in 1..k : s[i] = "."
                      /\ k = Len(s) \/ s[k + 1] # "."
         IN  (IF n = 1 THEN <<".">> ELSE <<>>) \o removeDotRuns(SubSeq(s, n + 1, Len(s)))

\* .replace(/^\/+/, "")
RECURSIVE stripLeadingSlashes(_)
stripLeadingSlashes(s) ==
    IF s # <<>> /\ Head(s) = "/" THEN stripLeadingSlashes(Tail(s)) ELSE s

\* The segments of a path, empty ones included.
RECURSIVE split(_)
split(p) ==
    LET i == indexOf(p, <<"/">>)
    IN  IF i = 0 THEN <<p>> ELSE <<SubSeq(p, 1, i - 1)>> \o split(SubSeq(p, i + 1, Len(p)))

\* path.join(outDir, rel), as a position relative to outDir: "" and "."
\* segments are dropped, ".." goes up, and what goes above outDir is outside
RECURSIVE resolveSegments(_, _)
resolveSegments(segs, at) ==
    IF segs = <<>> THEN at
    ELSE LET g == Head(segs)
         IN  IF g = <<>> \/ g = <<".">> THEN resolveSegments(Tail(segs), at)
             ELSE IF g = <<".",".">>
                  THEN IF at.under = <<>>
                       THEN resolveSegments(Tail(segs), [at EXCEPT !.outside = TRUE])
                       ELSE resolveSegments(Tail(segs),
                                [at EXCEPT !.under = SubSeq(@, 1, Len(@) - 1)])
             ELSE resolveSegments(Tail(segs), [at EXCEPT !.under = Append(@, g)])

RECURSIVE joinSegments(_)
joinSegments(segs) ==
    IF segs = <<>> THEN <<>>
    ELSE IF Len(segs) = 1 THEN Head(segs)
    ELSE Head(segs) \o <<"/">> \o joinSegments(Tail(segs))

join(outDir, rel) == resolveSegments(split(rel), outDir)

\* The output directory itself.
OutDir == [outside |-> FALSE, under |-> <<>>]

\* The key of a resolved path in the output tree.
treePath(at) == joinSegments(at.under)

isFile(tree, at) == ~at.outside /\ treePath(at) \in DOMAIN tree

isDirectory(tree, at) ==
    /\ ~at.outside
    /\ \/ at.under = <<>>
       \/ \E f \in DOMAIN tree : startsWith(f, treePath(at) \o <<"/">>)

InitServe ==
    /\ mode = "serve"
    /\ out \in ServeTrees
    /\ call \in {[arg |-> u, trail |-> <<>>, pc |-> "request", filePath |-> OutDir,
                   isNotFoundResponse |-> FALSE, status |-> 0] : u \in RequestUrls}
    /\ cfg = defaultConfig
    /\ pages = {}
    /\ pub = Empty
    /\ NothingRun

ServeFrame == UNCHANGED <<mode, cfg, pages, pub, out, builds, tasks, building, pending, watching, events>>

\* The handler up to its first await: the URL is decoded and neutralized.
\* decodeURI is outside the try blocks: when it throws, the handler's
\* promise rejects and nothing is written to the response.
ServeRequest ==
    /\ mode = "serve"
    /\ call.pc = "request"
    /\ LET urlPath == decodeURI(beforeQuery(call.arg))
           safePath == removeDotRuns(urlPath.value)
           stripped == stripLeadingSlashes(safePath)
           requestPath == IF stripped = <<>> THEN INDEX_HTML ELSE stripped
       IN  call' = IF urlPath.threw
                   THEN [call EXCEPT !.pc = "rejected"]
                   ELSE [call EXCEPT !.pc = "stat",
                                     !.filePath = join(OutDir, requestPath),
                                     !.trail = <<Applied("requestPath", call.arg, requestPath)>>]
    /\ ServeFrame

\* The first try: stat, the directory's index.html, or the fallbacks.
ServeStat ==
    /\ mode = "serve"
    /\ call.pc = "stat"
    /\ LET asIndex == join(call.filePath, INDEX_HTML)
           found == IF isFile(out, call.filePath) THEN <<call.filePath>>
                    ELSE IF isDirectory(out, call.filePath) /\ isFile(out, asIndex) THEN <<asIndex>>
                    ELSE <<>>
       IN  call' = IF found # <<>>
                   THEN [call EXCEPT !.pc = "read", !.filePath = found[1]]
                   ELSE IF F_404_html \in DOMAIN out
                        THEN [call EXCEPT !.pc = "read", !.filePath = join(OutDir, F_404_html),
                                          !.isNotFoundResponse = TRUE]
                        ELSE [call EXCEPT !.pc = "read", !.filePath = join(OutDir, INDEX_HTML)]
    /\ ServeFrame

\* The second try: the file is read and sent, or "Not found" is.
ServeRead ==
    /\ mode = "serve"
    /\ call.pc = "read"
    /\ call' = [call EXCEPT !.pc = "responded",
                            !.status = IF isFile(out, call.filePath) /\ ~call.isNotFoundResponse
                                       THEN 200 ELSE 404,
                            !.trail = Append(@, Applied("readFile", call.filePath, isFile(out, call.filePath)))]
    /\ ServeFrame

NextServe ==
    \/ ServeRequest
    \/ ServeStat
    \/ ServeRead

SpecServe == InitServe /\ [][NextServe]_vars

---------------------------------------------------------------------------
(* `camper dev`: the dev loop with its steps scheduled (dev/watcher.ts) *)

\* What the program does by itself in dev mode: every step of dev() and of
\* the builds it starts. A build in dev mode skips the finishing stages.
DevSteps ==
    \/ Main
    \/ StartWatch
    \/ \E n \in BuildIds : LoadConfig(n)
    \/ \E n \in BuildIds : LoadData(n)
    \/ \E n \in BuildIds : CleanDir(n)
    \/ \E n \in BuildIds : CopyFile(n)
    \/ \E n \in BuildIds : CopyDone(n)
    \/ \E n \in BuildIds : WalkPages(n)
    \/ \E n \in BuildIds, rel \in Rels : TaskRender(n, rel)
    \/ \E n \in BuildIds, rel \in Rels : TaskWrite(n, rel)
    \/ \E n \in BuildIds : RenderDone(n)
    \/ \E n \in BuildIds : Robots(n)
    \/ \E n \in BuildIds : Sitemap(n)

NextDev ==
    \/ DevSteps
    \/ WatchEvent

\* `camper dev` in a project with no page, or with one page, which renders
\* or throws.
InitDevLive ==
    /\ InitDev
    /\ pages = {} \/ \E p \in PageUniverse : pages = {p}

\* The event loop runs every continuation that is ready; change events
\* arrive when they arrive.
SpecDevLive == InitDevLive /\ [][NextDev]_vars /\ WF_vars(DevSteps)

---------------------------------------------------------------------------
(* Claims *)

Range(q) == {q[i] : i \in DOMAIN q}

\* The stage events the pipeline must keep apart: <<a, b>> says that every a
\* of a build comes before every b of that build.
MustPrecede ==
    { <<"clean", "copy">>, <<"clean", "render">>, <<"clean", "write">>,
      <<"clean", "minify">>, <<"clean", "rename">>, <<"clean", "rewrite">>,
      <<"copy", "render">>, <<"copy", "write">>,
      <<"copy", "minify">>, <<"copy", "rename">>, <<"copy", "rewrite">>,
      <<"render", "minify">>, <<"write", "minify">>,
      <<"render", "rename">>, <<"write", "rename">>,
      <<"render", "rewrite">>, <<"write", "rewrite">>,
      <<"rename", "rewrite">> }

\* C1: in every build the stages run in sequence: the output directory is
\* cleaned before a public file is copied, every public file is copied
\* before a page is rendered, every page is written before minification or
\* cache-busting begins, and every asset is renamed before an HTML file is
\* rewritten.
C1_StagesInSequence ==
    \A n \in DOMAIN builds :
        \A i, j \in DOMAIN builds[n].log :
            i < j => <<builds[n].log[j], builds[n].log[i]>> \notin MustPrecede

\* A build that went through every stage, cache-busting included.
C1_Witness ==
    \E n \in DOMAIN builds :
        /\ builds[n].pc = "sitemap"
        /\ {"clean", "copy", "render", "write", "minify", "rename", "rewrite"} \subseteq Range(builds[n].log)

\* C2: in dev mode at most one call of build() is running at any time.
C2_OneBuildAtATime ==
    mode = "dev" => Cardinality({n \in DOMAIN builds : Running(builds[n])}) <= 1

\* A change event arrived while a build was running, and the guard held it.
C2_Witness ==
    /\ mode = "dev"
    /\ pending
    /\ \E n \in DOMAIN builds : Running(builds[n]) /\ builds[n].arrived >= 1

Completes(n) == n \in DOMAIN builds /\ Running(builds[n]) /\ ~Running(builds'[n])

\* C3: the change events that arrive while a build runs are coalesced: when
\* the build completes, exactly one further build starts if one or more
\* events arrived during it and none starts if none arrived; a build starts
\* only at a change event with no build running or at the completion of the
\* running build.
C3_Coalesced ==
    [][ mode = "dev" =>
        /\ Len(builds') <= Len(builds) + 1
        /\ \A n \in DOMAIN builds :
              Completes(n) =>
                  IF builds[n].arrived >= 1
                  THEN Len(builds') = Len(builds) + 1 /\ Running(builds'[Len(builds')])
                  ELSE Len(builds') = Len(builds)
        /\ Len(builds') > Len(builds) =>
              /\ \A m \in DOMAIN builds : Running(builds[m]) => Completes(m)
              /\ \/ builds = <<>>
                 \/ events' = events + 1 /\ \A m \in DOMAIN builds : ~Running(builds[m])
                 \/ events' = events /\ \E m \in DOMAIN builds : Completes(m)
      ]_vars

\* Two change events arrived during one build, and one build followed it.
C3_Witness ==
    /\ mode = "dev"
    /\ \E n \in DOMAIN builds :
          /\ ~Running(builds[n])
          /\ builds[n].arrived >= 2
          /\ Len(builds) = n + 1
          /\ Running(builds[n + 1])

\* C4: the result of rendering the pages of a build concurrently is the same
\* for every interleaving of the page tasks: no two pages write the same
\* output file, and when all tasks have settled each page's output file
\* holds what that page rendered.
C4_PagesIndependent ==
    \A n \in DOMAIN builds :
        (mode = "build" /\ builds[n].pc = "render" /\ pagesSettled(n)) =>
            /\ \A p, q \in pages : p # q => outRel(p.rel) # outRel(q.rel)
            /\ \A p \in pages :
                  /\ outRel(p.rel) \in DOMAIN out
                  /\ out[outRel(p.rel)].src = p.rel

\* C5: a page that fails to render is confined to that page: build() does
\* not throw because of it.
C5_FailureConfined ==
    \A n \in DOMAIN builds :
        (\A p \in pages : ~renderWithLayout(p.layout).threw) => builds[n].pc # "thrown"

\* C6: a page whose layout does not exist, or is of no supported layout type,
\* does not fail: it is written, unwrapped.
C6_MissingLayoutUnwrapped ==
    \A k \in DOMAIN tasks :
        LET p == PageOf(k[2])
        IN  (mode = "build" /\ ~p.bad /\ p.layout # <<>> /\ p.layout \notin LayoutFiles) =>
                /\ tasks[k] # "failed"
                /\ tasks[k] = "written" => out[outRel(p.rel)].layout = <<>>

\* The path the pages tree is mirrored to: rel with its final extension
\* (.liquid.html counted as one) replaced by .html.
expectedOut(rel) ==
    LET ext == IF endsWith(toLowerCase(rel), DOT_LIQUID \o DOT_HTML)
               THEN DOT_LIQUID \o DOT_HTML
               ELSE extname(rel)
    IN  SubSeq(rel, 1, Len(rel) - Len(ext)) \o DOT_HTML

\* C10: a rendered page is written at its path relative to pages/ with only
\* its final extension replaced by .html.
C10_OutputPath ==
    \A k \in DOMAIN tasks :
        (tasks[k] = "written" /\ Renderable(k[2])) =>
            /\ outRel(k[2]) = expectedOut(k[2])
            /\ Running(builds[k[1]]) => expectedOut(k[2]) \in DOMAIN out

\* The .css and .js files of the tree cacheBustAssets was called on.
assetsBefore(n) == {f \in DOMAIN builds[n].before : isAsset(f)}

cacheBustReturned(n) == mode = "cachebust" /\ builds[n].pc = "done"

\* C7: after cacheBustAssets every asset f of the tree is gone from its
\* original name, exists once as <base>-<hash><ext> with the hash of its
\* bytes, the asset map maps f to that path, and the number of assets is
\* unchanged.
C7_EveryAssetRenamed ==
    \A n \in DOMAIN builds :
        cacheBustReturned(n) =>
            /\ \A f \in assetsBefore(n) :
                  LET h == hashedPath(f, hashHex(builds[n].before[f]))
                  IN  /\ f \notin DOMAIN out
                      /\ h \in DOMAIN out
                      /\ out[h].bytes = builds[n].before[f].bytes
                      /\ <<f, h>> \in Range(builds[n].assetMap)
            /\ Cardinality({f \in DOMAIN out : isAsset(f)}) = Cardinality(assetsBefore(n))

\* A <link> href or <script> src attribute whose value is the path f, with or
\* without a leading slash.
refersTo(item, f) ==
    /\ \/ toLowerCase(item.tag) = T_link /\ toLowerCase(item.attr) = A_href
       \/ toLowerCase(item.tag) = T_script /\ toLowerCase(item.attr) = A_src
    /\ item.val \in {f, <<"/">> \o f}

\* C8: after cacheBustAssets no <link> href and no <script> src of an HTML
\* file still names the original path of an asset the stage renamed.
C8_EveryReferenceRewritten ==
    \A n \in DOMAIN builds :
        (cacheBustReturned(n) /\ F_s_a1_css \notin DOMAIN builds[n].before) =>
            \A h \in DOMAIN out :
                getExt(h) = DOT_HTML =>
                    \A i \in DOMAIN out[h].items :
                        \A f \in assetsBefore(n) : ~refersTo(out[h].items[i], f)

\* C9: cache-busting changes only <link> href and <script> src values that
\* equal an original asset path, and writes no HTML file without one.
C9_OnlyReferencesChange ==
    \A n \in DOMAIN builds :
        cacheBustReturned(n) =>
            \A h \in DOMAIN builds[n].before :
                getExt(h) = DOT_HTML =>
                    LET old == builds[n].before[h].items
                        matching == {i \in DOMAIN old : \E f \in assetsBefore(n) : refersTo(old[i], f)}
                    IN  /\ h \in DOMAIN out
                        /\ DOMAIN out[h].items = DOMAIN old
                        /\ \A i \in DOMAIN old :
                              /\ i \notin matching => out[h].items[i] = old[i]
                              /\ out[h].items[i].tag = old[i].tag
                              /\ out[h].items[i].attr = old[i].attr
                        /\ h \in builds[n].rewritten => matching # {}

\* C11: a file under pages/ that is not of a renderable type is copied to the
\* output tree under the same relative path and name, bytes unchanged.
C11_OtherFilesCopiedVerbatim ==
    \A k \in DOMAIN tasks :
        (mode = "build" /\ tasks[k] = "written" /\ ~Renderable(k[2]) /\ Running(builds[k[1]])) =>
            /\ k[2] \in DOMAIN out
            /\ out[k[2]].kind = "copy"
            /\ out[k[2]].src = k[2]

\* The optional stages whose config toggle is on.
toggledOn ==
    {s \in {"images", "minifyCSS", "minifyHTML", "cacheBust"} :
        \/ s = "images" /\ cfg.compressPhotos
        \/ s = "minifyCSS" /\ cfg.minifyCSS
        \/ s = "minifyHTML" /\ cfg.minifyHTML
        \/ s = "cacheBust" /\ cfg.cacheBustAssets}

C13_NoPagesShortCircuits ==
    pages = {} =>
        \A n \in DOMAIN builds :
            /\ builds[n].pc \in {"loadConfig", "loadData", "clean", "copy", "images", "walk", "done", "gone"}
            /\ Range(builds[n].log) \subseteq {"clean", "copy"}
            /\ builds[n].ran \subseteq {"images"}
            /\ (builds[n].pc = "done" /\ n = Len(builds)) => out = pub
            /\ tasks = Empty

\* A build of a project with public files and no page has returned.
C13_Witness ==
    /\ pages = {}
    /\ mode = "build"
    /\ pub # Empty
    /\ \E n \in DOMAIN builds : builds[n].pc = "done" /\ out = pub

\* C14: at the end of a build with pages, robots.txt and sitemap.xml are the
\* user's files where public/ supplies them and are written by the build
\* where it does not; a user's file is never overwritten, and the sitemap is
\* generated only when all pages and finishing stages are done.
C14_RobotsAndSitemap ==
    mode = "build" =>
        \A n \in DOMAIN builds :
            LET ended == builds[n].pc = "done" /\ pages # {}
                present(f, kind) ==
                    /\ f \in DOMAIN out
                    /\ IF f \in DOMAIN pub THEN out[f] = pub[f] ELSE out[f].kind = kind
            IN  /\ (builds[n].pc = "sitemap" \/ ended) => present(F_robots, "robots")
                /\ ended => present(F_sitemap, "sitemap")
                /\ \A f \in {F_robots, F_sitemap} :
                      (f \in DOMAIN pub /\ f \in DOMAIN out) => out[f] = pub[f]
                /\ (F_robots \in DOMAIN out /\ out[F_robots].kind = "robots") =>
                      builds[n].pc \in {"sitemap", "done"}
                /\ (F_sitemap \in DOMAIN out /\ out[F_sitemap].kind = "sitemap") =>
                      builds[n].pc = "done" /\ pagesSettled(n)

\* A build ended with the user's robots.txt kept and a sitemap.xml generated.
C14_Witness ==
    /\ mode = "build"
    /\ pages # {}
    /\ F_robots \in DOMAIN pub
    /\ F_sitemap \notin DOMAIN pub
    /\ \E n \in DOMAIN builds :
          /\ builds[n].pc = "done"
          /\ F_robots \in DOMAIN out /\ out[F_robots] = pub[F_robots]
          /\ F_sitemap \in DOMAIN out /\ out[F_sitemap].kind = "sitemap"

\* A wildcard pattern read literally: "*" is any run of characters, "?" any
\* one character, every other character itself.
RECURSIVE globMatch(_, _)
globMatch(pat, s) ==
    IF pat = <<>> THEN s = <<>>
    ELSE IF Head(pat) = "*"
    THEN globMatch(Tail(pat), s) \/ (s # <<>> /\ globMatch(pat, Tail(s)))
    ELSE IF Head(pat) = "?"
    THEN s # <<>> /\ globMatch(Tail(pat), Tail(s))
    ELSE s # <<>> /\ Head(s) = Head(pat) /\ globMatch(Tail(pat), Tail(s))

\* The four ways a pattern matches a file, letter case ignored.
patternMatches(pattern, filePath) ==
    LET name == toLowerCase(basename(filePath))
        pat == toLowerCase(pattern)
    IN  \/ pat = name
        \/ startsWith(pat, <<".">>) /\ pat = getExt(filePath)
        \/ startsWith(pat, <<"*", ".">>) /\ Tail(pat) = getExt(filePath)
        \/ (\E i \in DOMAIN pat : pat[i] \in {"*", "?"}) /\ globMatch(pat, name)

\* C15: after the copy stage a non-hidden file of public/ is in the output
\* directory, same path and bytes, if and only if its name matches none of
\* the excludeFiles patterns.
C15_ExcludedFilesSkipped ==
    \A n \in DOMAIN builds :
        (mode = "copy" /\ builds[n].pc = "done") =>
            \A f \in walkFiles(pub) :
                (f \in DOMAIN out /\ out[f] = pub[f]) <=>
                    ~(\E i \in DOMAIN cfg.excludeFiles : patternMatches(cfg.excludeFiles[i], f))

\* The .html files of the tree the sitemap was generated from.
listedHtml == {f \in DOMAIN out : f # F_sitemap /\ endsWith(f, DOT_HTML)}

sitemapWritten ==
    /\ mode = "sitemap"
    /\ builds # <<>> /\ builds[1].pc = "done"
    /\ F_sitemap \in DOMAIN out

\* The entries of the generated sitemap, given the URL the <loc>s start with:
\* one entry with <loc> and <lastmod> for each .html file and none for any
\* other file, the root index.html at base/, <dir>/index.html at base/<dir>,
\* and no <loc> containing "index.html".
sitemapEntriesOver(base) ==
    LET urls == out[F_sitemap].items
    IN  /\ Len(urls) = Cardinality(listedHtml)
        /\ \A i \in DOMAIN urls : urls[i].loc # <<>> /\ urls[i].lastmod # ""
        /\ \A f \in listedHtml :
              \E i \in DOMAIN urls :
                  /\ startsWith(urls[i].loc, base \o <<"/">>)
                  /\ f = INDEX_HTML => urls[i].loc = base \o <<"/">>
                  /\ endsWith(f, <<"/">> \o INDEX_HTML) =>
                        urls[i].loc = base \o <<"/">> \o SubSeq(f, 1, Len(f) - 11)
                  /\ ~endsWith(f, INDEX_HTML) =>
                        urls[i].loc = base \o <<"/">> \o SubSeq(f, 1, Len(f) - 5)
        /\ \A i \in DOMAIN urls : indexOf(urls[i].loc, INDEX_HTML) = 0

plainPath(p) ==
    /\ p # <<>>
    /\ \A i \in DOMAIN p :
          /\ p[i] \notin {" ", "\\"}
          /\ p[i] \in {"/", "."} => (i > 1 /\ p[i - 1] # "/")
    /\ p[Len(p)] # "/"

\* C17: for a path p that ends in .html, normalizeUrl(toUrlPath(p)) is a
\* fixed point of normalizeUrl.
C17_NormalizedPathIsFixedPoint ==
    (/\ Len(call.trail) >= 3
     /\ call.trail[1].fn = "toUrlPath"
     /\ plainPath(call.arg)
     /\ endsWith(call.arg, DOT_HTML)) =>
        call.trail[3].output = call.trail[2].output

\* C18: for every x, normalizeUrl gives the same result for /x, /x.html
\* and /x/.
C18_SpellingsCompareEqual ==
    \A i, j \in DOMAIN call.trail :
        (/\ plainPath(call.arg)
         /\ call.trail[i].fn = "normalizeSpelling"
         /\ call.trail[j].fn = "normalizeSpelling") =>
            call.trail[i].output = call.trail[j].output

\* The last segment of a path, separators normalised.
lastSegment(p) == basename(slashes(p))

\* C19: toUrlPath(p) is the directory URL of p when p's last segment is
\* index.html ("/" for the root index.html), and otherwise "/" followed by
\* p, backslashes turned into slashes and one trailing slash stripped; it
\* starts with "/" and is not empty.
C19_ToUrlPath ==
    (call.trail # <<>> /\ call.trail[1].fn = "toUrlPath" /\ plainPath(call.arg)) =>
        LET p == slashes(call.arg)
            url == call.trail[1].output
            full == <<"/">> \o p
            dir == SubSeq(full, 1, Len(full) - Len(INDEX_HTML))
        IN  /\ url # <<>> /\ Head(url) = "/"
            /\ lastSegment(call.arg) = INDEX_HTML =>
                  url = IF dir = <<"/">> THEN dir ELSE SubSeq(dir, 1, Len(dir) - 1)
            /\ lastSegment(call.arg) # INDEX_HTML =>
                  url = IF full # <<"/">> /\ endsWith(full, <<"/">>)
                        THEN SubSeq(full, 1, Len(full) - 1)
                        ELSE full

SlugAlphabet ==
    {LowerChars[i] : i \in DOMAIN LowerChars}
        \cup {"0", "1", "2", "3", "4", "5", "6", "7", "8", "9", "-"}

nameWithoutExtension(file) ==
    LET name == basename(file) IN SubSeq(name, 1, Len(name) - Len(extname(name)))

\* The directories, by position, that hold a JSON file that parses under key.
dirsWithKey(key) ==
    {d \in DOMAIN call.arg :
        /\ call.arg[d].exists
        /\ \E f \in walkFiles(call.arg[d].tree) :
              /\ getExt(f) = DOT_JSON
              /\ call.arg[d].tree[f] = "json"
              /\ nameWithoutExtension(f) = key}

\* C21: when loadData has returned, a key that valid JSON files of two
\* directories produce (their base name without extension) holds the value
\* of the directory that comes later in the list; a missing directory
\* contributes nothing.
C21_LaterDirectoryWins ==
    (mode = "data" /\ call.pc = "returned") =>
        /\ \A f \in DataUniverse :
              LET key == nameWithoutExtension(f)
                  ds == dirsWithKey(key)
              IN  Cardinality(ds) >= 2 =>
                    /\ key \in DOMAIN call.collections
                    /\ call.collections[key].dir = CHOOSE d \in ds : \A e \in ds : e <= d
        /\ \A k \in DOMAIN call.collections : call.arg[call.collections[k].dir].exists

\* The mapping before the i-th file was visited.
collectionsBefore(i) == IF i = 1 THEN Empty ELSE call.trail[i - 1].output

\* C22: a data file that does not parse never makes loadData fail: the
\* malformed file leaves the mapping as it was before the file was visited,
\* loadData returns, and the key of every visited valid file is present with
\* a parsed value of that key.
C22_MalformedIsSkipped ==
    mode = "data" =>
        /\ call.pc \in {"dirs", "files", "returned"}
        /\ \A i \in DOMAIN call.trail :
              LET d == call.trail[i].input[1]
                  f == call.trail[i].input[2]
              IN  /\ call.arg[d].tree[f] = "malformed" =>
                        call.trail[i].output = collectionsBefore(i)
                  /\ (getExt(f) = DOT_JSON /\ call.arg[d].tree[f] = "json") =>
                        /\ collectionKey(f) \in DOMAIN call.collections
                        /\ call.trail[i].output[collectionKey(f)] = parsed(d, f)
                        /\ collectionKey(call.collections[collectionKey(f)].file) = collectionKey(f)
        /\ call.pc = "returned" =>
              \A d \in DOMAIN call.arg : call.arg[d].exists =>
                  \A f \in walkFiles(call.arg[d].tree) :
                      \E i \in DOMAIN call.trail : call.trail[i].input = <<d, f>>

\* loadData has returned after it visited a valid file, then a malformed
\* one, then another valid file.
C22_Witness ==
    /\ mode = "data"
    /\ call.pc = "returned"
    /\ \E i, j, k \in DOMAIN call.trail :
          /\ i < j /\ j < k
          /\ call.arg[call.trail[j].input[1]].tree[call.trail[j].input[2]] = "malformed"
          /\ getExt(call.trail[j].input[2]) = DOT_JSON
          /\ call.trail[i].output # Empty
          /\ call.trail[k].output # call.trail[j].output

NestedSettings == {"compressionSettings", "integrations"}

\* C23: the configuration loadConfig returns has every field of the
\* default configuration, at every nesting level, and a field the user
\* config does not specify holds its default value.
C23_EveryFieldHasDefault ==
    (mode = "config" /\ call.trail # <<>>) =>
        LET user == call.arg.user
            config == call.trail[1].output
        IN  \A k \in DOMAIN defaultConfigNested :
                /\ k \in DOMAIN config
                /\ (k \notin DOMAIN user) => config[k] = defaultConfigNested[k]
                /\ (k \in NestedSettings) =>
                      \A j \in DOMAIN defaultConfigNested[k] :
                          /\ j \in DOMAIN config[k]
                          /\ (k \in DOMAIN user /\ j \notin DOMAIN user[k]) =>
                                config[k][j] = defaultConfigNested[k][j]

\* C24: for a page of any renderable variant, a boolean markdown value in
\* the frontmatter decides whether the body is passed through Markdown;
\* otherwise the variant's default applies (Markdown for .md pages only).
C24_MarkdownOverride ==
    (mode = "markdown" /\ call.trail # <<>> /\ Last(call.trail).fn = "finalizePage") =>
        LET value == call.arg.frontmatter.markdown
            passed == "md.render" \in Range(Last(call.trail).input)
        IN  passed <=> IF value \in {"true", "false"}
                       THEN value = "true"
                       ELSE getExt(call.arg.filePath) = DOT_MD

\* The hooks the config sets.
configuredHooks == {h \in {"nunjucksEnv", "liquidEnv"} : cfg.hooks[h] # "none"}

\* C25: an exception a nunjucksEnv or liquidEnv hook throws is caught and
\* does not abort the build: only a page that fails makes the build throw,
\* and a build at its last stage has cleaned, copied, rendered and written
\* and run every finishing stage that is switched on; each hook is called at
\* most once per build and before anything else the build does, so before
\* the first page starts rendering.
C25_HookFailuresCaught ==
    \A n \in DOMAIN builds :
        LET b == builds[n]
        IN  /\ \A i, j \in DOMAIN b.hooks : b.hooks[i].hook = b.hooks[j].hook => i = j
            /\ \A i \in DOMAIN b.hooks : ~b.hooks[i].escaped
            /\ b.pc \notin {"loadConfig", "done", "thrown", "gone"} =>
                  {b.hooks[i].hook : i \in DOMAIN b.hooks} = configuredHooks
            /\ \A i \in DOMAIN b.log : b.log[i] = "hooks" => i = 1
            /\ b.pc = "thrown" => \E k \in DOMAIN tasks : k[1] = n /\ tasks[k] = "failed"
            /\ (b.pc = "sitemap" /\ ~noPages(pages)) =>
                  /\ {"clean", "render", "write"} \subseteq Range(b.log)
                  /\ pub # Empty => "copy" \in Range(b.log)
                  /\ b.ran = IF b.devMode THEN {} ELSE toggledOn

\* A build whose two hooks threw is at its last stage, its pages written
\* and its finishing stages run.
C25_Witness ==
    /\ cfg.hooks.nunjucksEnv = "throws"
    /\ cfg.hooks.liquidEnv = "throws"
    /\ \E n \in DOMAIN builds :
          /\ builds[n].pc = "sitemap"
          /\ Len(builds[n].hooks) = 2
          /\ builds[n].hooks[1].threw /\ builds[n].hooks[2].threw
          /\ "write" \in Range(builds[n].log)
          /\ "cacheBust" \in builds[n].ran

\* C26: in image compression a conversion that fails is confined to its
\* image: the batch never throws, a conversion of a sound image to a
\* supported format other than its own succeeds whatever failed before it,
\* and when the batch has returned every image has been through every
\* format and an image with no successful conversion still has its
\* original file, also when preserveOriginal is false.
C26_FailureConfinedToImage ==
    mode = "images" =>
        /\ call.pc # "thrown"
        /\ \A file \in DOMAIN call.images : \A i \in DOMAIN call.images[file].tried :
              LET format == call.images[file].tried[i].input[1]
                  read == call.images[file].tried[i].input[2]
              IN  (read = "sound" /\ supported(format) /\ outputPath(file, format) # file) =>
                      call.images[file].tried[i].output = "pushed"
        /\ call.pc = "returned" =>
              \A file \in DOMAIN call.images :
                  /\ call.images[file].next = Len(cfg.compressionSettings.formats) + 1
                  /\ call.images[file].results = <<>> => file \in DOMAIN out

\* The batch has returned with preserveOriginal false: every conversion of
\* one image failed and that image is still there, another image was
\* converted and its original removed.
C26_Witness ==
    /\ mode = "images"
    /\ call.pc = "returned"
    /\ ~cfg.compressionSettings.preserveOriginal
    /\ \E f, g \in DOMAIN call.images :
          /\ f # g
          /\ \E i \in DOMAIN call.images[f].tried : call.images[f].tried[i].output = "caught"
          /\ call.images[f].results = <<>>
          /\ f \in DOMAIN out
          /\ call.images[g].results # <<>>
          /\ g \notin DOMAIN out

\* C27: for every request URL the path the dev server resolves has no ".."
\* segment, every file it reads lies inside the output directory, and
\* every request receives a response.
C27_ServeStaysInsideAndResponds ==
    mode = "serve" =>
        /\ call.pc # "rejected"
        /\ ~call.filePath.outside
        /\ \A i \in DOMAIN call.trail :
              /\ call.trail[i].fn = "requestPath" =>
                    \A k \in DOMAIN split(call.trail[i].output) :
                        split(call.trail[i].output)[k] # <<".",".">>
              /\ call.trail[i].fn = "readFile" => ~call.trail[i].input.outside
        /\ call.pc = "responded" => call.status \in {200, 404}

\* C28: when a call of build() has returned or thrown, none of the page
\* tasks it started is still running or still has its write to do (so a
\* follow-up build in dev mode never cleans or writes the output directory
\* under a task of an earlier build).
C28_NoTaskOutlivesItsBuild ==
    \A n \in DOMAIN builds :
        ~Running(builds[n]) =>
            \A k \in DOMAIN tasks : k[1] = n => tasks[k] \notin {"start", "ready"}

\* The dev loop is idle: no build is running, no trigger is pending, and no
\* change event arrived after the last build started.
DevIdle ==
    /\ ~building
    /\ ~pending
    /\ builds # <<>>
    /\ \A n \in DOMAIN builds : ~Running(builds[n])
    /\ Last(builds).arrived = 0

\* Build n throws in this step.
Throws(n) == n \in DOMAIN builds /\ Running(builds[n]) /\ n \in DOMAIN builds' /\ builds'[n].pc = "thrown"

\* C29: a dev-mode build that throws releases the rebuild guard: the guard
\* is set exactly while a build runs, a trigger pending when the build
\* throws starts the follow-up build, a change event with no build running
\* starts a build; and once change events stop arriving the loop is
\* eventually idle for good, the last build having started after the last
\* change event.
C29_ThrowReleasesGuard ==
    /\ [](building <=> \E n \in DOMAIN builds : Running(builds[n]))
    /\ [][ \A n \in DOMAIN builds :
              Throws(n) =>
                  IF pending
                  THEN /\ Len(builds') = Len(builds) + 1
                       /\ Running(builds'[Len(builds')])
                       /\ building' /\ ~pending'
                  ELSE ~building' /\ ~pending' /\ Len(builds') = Len(builds)
         ]_vars
    /\ [][ (events' = events + 1 /\ ~building) =>
              /\ Len(builds') = Len(builds) + 1
              /\ Running(builds'[Len(builds')])
              /\ building'
         ]_vars
    /\ <>[]DevIdle

\* After a change event and a second build, the last build has thrown and
\* the loop is idle: the guard is released.
C29_Witness ==
    /\ mode = "dev"
    /\ DevIdle
    /\ events >= 1
    /\ Len(builds) >= 2
    /\ Last(builds).pc = "thrown"

\* C30: for every output-relative HTML path p, the URL path generateSitemap
\* places after the site URL in <loc> equals normalizeUrl(toUrlPath(p)).
C30_SitemapPathIsPagePath ==
    (/\ mode = "url"
     /\ Len(call.trail) >= 3
     /\ call.trail[1].fn = "generateSitemap"
     /\ call.trail[2].fn = "toUrlPath"
     /\ call.trail[3].fn = "normalizeUrl"
     /\ plainPath(call.arg)) =>
        call.trail[1].output = call.trail[3].output

===========================================================================
